---- MODULE Spec2Model ----
(***************************************************************************)
(* Alert aggregation engine (src/lib/alert-aggregator): the aggregator's   *)
(* ingest / acknowledge / resolve pipeline over the deduplicator, the      *)
(* router, the SQLite storage and the running statistics.                  *)
(*                                                                         *)
(* Spec      the operations of one AlertAggregator called one at a time    *)
(* SpecConc  producer threads calling ingest on one aggregator, each call  *)
(*           advancing statement by statement (the code takes no lock)     *)
(***************************************************************************)
EXTENDS Integers, Sequences, FiniteSets, TLC

VARIABLES
    dedup_enabled,  \* AlertDeduplicator.enabled
    active_alerts,  \* AlertAggregator.active_alerts: insertion-ordered dict, as a sequence of [key, alert]
    storage,        \* the alerts table: id -> row
    stats,          \* AlertAggregator.stats
    callbacks,      \* AlertAggregator.callbacks: what each registered callback does when called
    rules,          \* AlertRouter.rules
    lastOp,         \* the last call: its inputs, what it returned or raised, the callback deliveries
    nextId,         \* the next id no alert has used yet
    now,            \* datetime.now(), advancing with every call
    nFaults,        \* the storage writes the database has failed so far
    nIngest,        \* history: ingest calls that returned
    nMerged,        \* history: of those, the calls that merged
    run,            \* history: the current run of same-fingerprint ingests that began with no active alert
    pending,        \* history: resolved alerts whose fingerprint has not been ingested again
    threads         \* SpecConc: each producer thread's position inside ingest

vars == <<dedup_enabled, active_alerts, storage, stats, callbacks, rules,
          lastOp, nextId, now, nFaults, nIngest, nMerged, run, pending, threads>>

-----------------------------------------------------------------------------
(* Bounds of the model *)

MaxOps == 4          \* calls per behaviour
MaxFaults == 1       \* storage writes the database fails per behaviour
MaxCallbacks == 2    \* registered callbacks
NumThreads == 2      \* SpecConc: producer threads
MaxCalls == 3        \* SpecConc: ingest calls per behaviour
MaxAdds == 2         \* SpecRouter: add_rule calls per behaviour
MaxFinds == 3        \* SpecFuzzy: ingest calls per behaviour
MaxStorageOps == 4   \* SpecStorage: storage calls per behaviour
MaxSubmits == 3      \* SpecApi: submit_alert calls per behaviour
MaxBuilds == 2       \* SpecFingerprint: pairs of alerts built per behaviour
MaxSteps == 2        \* SpecScenario: steps of a scenario
MaxRowIds == 2       \* SpecStorage: distinct alert ids given to store_alert
time_window == 1     \* AlertDeduplicator.time_window as configured (seconds)
MaxCacheOps == 5     \* SpecCache: set / get calls per behaviour
MaxTrackerOps == 7   \* SpecTracker: calls on the tracker per behaviour
max_size_mb == 4     \* OfflineCache.max_size_mb as configured (MB)

(* Program constants *)

fuzzy_threshold_pct == 85   \* fuzzy_threshold = 0.85
title_weight_pct == 60      \* title_sim * 0.6
message_weight_pct == 40    \* msg_sim * 0.4

None == "None"    \* None, for text-valued fields
NoTime == -1      \* None, for an Optional[datetime] field

AlertSeverity == {"debug", "info", "warning", "error", "critical"}
AlertStatus == {"new", "acknowledged", "in_progress", "resolved", "dismissed"}
ChannelType == {"console", "file", "webhook", "email"}

(* The inputs the model draws alerts from. Texts are sequences of characters. *)
Sources == {"db"}
IngestSeverities == {"error", "info"}
Titles == {<<"d", "i", "s", "k", "1">>, <<"d", "i", "s", "k", "2">>}
Messages == {<<"t", "o">>}
FuzzyTitles == Titles \cup {<<"d", "i", "s", "k", "1", "2">>, <<"d", "u", "s", "k", "9">>}
Times == {0, time_window, time_window + 1}
Users == {"ops"}

Abs(x) == IF x < 0 THEN -x ELSE x
Max(x, y) == IF x >= y THEN x ELSE y
Min(x, y) == IF x <= y THEN x ELSE y

-----------------------------------------------------------------------------
(* models.py: Alert *)

\* Alert.compute_fingerprint: the hash of the canonical (key-sorted) dict of the
\* four content fields; the digest is modelled by the canonical tuple it hashes.
compute_fingerprint(source, severity, title, message) ==
    <<message, severity, source, title>>

\* Alert(...) as AlertCollector.collect builds it, with __post_init__ applied.
NewAlert(id, source, severity, title, message, timestamp) ==
    [id |-> id, source |-> source, severity |-> severity, title |-> title,
     message |-> message, timestamp |-> timestamp, status |-> "new",
     tags |-> <<>>, metadata |-> <<>>,
     fingerprint |-> compute_fingerprint(source, severity, title, message),
     duplicate_count |-> 1, first_seen |-> timestamp, last_seen |-> timestamp,
     acknowledged_at |-> NoTime, resolved_at |-> NoTime, acknowledged_by |-> None]

\* Fault: a merge_duplicate in which the candidate's metadata values replace the
\* existing ones
merge_duplicate_Overwrites(self, other) ==
    [self EXCEPT
        !.duplicate_count = self.duplicate_count + 1,
        !.last_seen = Max(IF self.last_seen = NoTime THEN self.timestamp ELSE self.last_seen,
                          other.timestamp),
        !.metadata = [k \in (DOMAIN self.metadata) \cup (DOMAIN other.metadata) |->
                         IF k \in DOMAIN other.metadata THEN other.metadata[k]
                         ELSE self.metadata[k]]]

\* Fault: a merge_duplicate that sets last_seen to the candidate's timestamp
merge_duplicate_LastWins(self, other) ==
    [self EXCEPT
        !.duplicate_count = self.duplicate_count + 1,
        !.last_seen = other.timestamp,
        !.metadata = [k \in (DOMAIN self.metadata) \cup (DOMAIN other.metadata) |->
                         IF k \in DOMAIN self.metadata THEN self.metadata[k]
                         ELSE other.metadata[k]]]

\* Alert.merge_duplicate
merge_duplicate(self, other) ==
    [self EXCEPT
        !.duplicate_count = self.duplicate_count + 1,
        !.last_seen = Max(IF self.last_seen = NoTime THEN self.timestamp ELSE self.last_seen,
                          other.timestamp),
        !.metadata = [k \in (DOMAIN self.metadata) \cup (DOMAIN other.metadata) |->
                         IF k \in DOMAIN self.metadata THEN self.metadata[k]
                         ELSE other.metadata[k]]]

\* Alert.acknowledge
AlertAcknowledge(self, by, at) ==
    [self EXCEPT !.status = "acknowledged", !.acknowledged_at = at, !.acknowledged_by = by]

\* Alert.resolve
AlertResolve(self, at) ==
    [self EXCEPT !.status = "resolved", !.resolved_at = at]

-----------------------------------------------------------------------------
(* models.py: AlertStats *)

InitStats ==
    [total_alerts |-> 0,
     by_severity |-> [s \in AlertSeverity |-> 0],
     by_status |-> [s \in AlertStatus |-> 0],
     by_source |-> <<>>,
     duplicates_merged |-> 0]

\* Fault: an update that counts a source only the first time it is seen
StatsUpdate_SourceOnce(st, alert) ==
    [total_alerts |-> st.total_alerts + 1,
     by_severity |-> [st.by_severity EXCEPT ![alert.severity] = @ + 1],
     by_status |-> [st.by_status EXCEPT ![alert.status] = @ + 1],
     by_source |-> [s \in (DOMAIN st.by_source) \cup {alert.source} |->
                       IF s \in DOMAIN st.by_source THEN st.by_source[s] ELSE 1],
     duplicates_merged |-> st.duplicates_merged
                           + (IF alert.duplicate_count > 1 THEN alert.duplicate_count - 1 ELSE 0)]

\* AlertStats.update
StatsUpdate(st, alert) ==
    [total_alerts |-> st.total_alerts + 1,
     by_severity |-> [st.by_severity EXCEPT ![alert.severity] = @ + 1],
     by_status |-> [st.by_status EXCEPT ![alert.status] = @ + 1],
     by_source |-> [s \in (DOMAIN st.by_source) \cup {alert.source} |->
                       (IF s \in DOMAIN st.by_source THEN st.by_source[s] ELSE 0)
                       + (IF s = alert.source THEN 1 ELSE 0)],
     duplicates_merged |-> st.duplicates_merged
                           + (IF alert.duplicate_count > 1 THEN alert.duplicate_count - 1 ELSE 0)]

-----------------------------------------------------------------------------
(* deduplicator.py: AlertDeduplicator *)

\* Fault: a window measured from the last merge into the existing alert
within_time_window_LastSeen(alert1, alert2) ==
    Abs(alert1.timestamp - alert2.last_seen) <= time_window

\* AlertDeduplicator._within_time_window
within_time_window(alert1, alert2) ==
    Abs(alert1.timestamp - alert2.timestamp) <= time_window

\* difflib.SequenceMatcher.find_longest_match on a[alo+1..ahi], b[blo+1..bhi]
\* (0-based half-open bounds as in difflib): the longest common block, of those
\* the one starting earliest in a, of those the one starting earliest in b.
\* <<i, j, k>>, with k = 0 when nothing matches.
BlockAt(a, b, i, j, k) ==
    \A d \in 0..(k - 1) : a[i + d + 1] = b[j + d + 1]

find_longest_match(a, b, alo, ahi, blo, bhi) ==
    LET Blocks == {t \in (alo..(ahi - 1)) \X (blo..(bhi - 1)) \X (1..Min(ahi - alo, bhi - blo)) :
                      /\ t[1] + t[3] <= ahi
                      /\ t[2] + t[3] <= bhi
                      /\ BlockAt(a, b, t[1], t[2], t[3])}
    IN IF Blocks = {} THEN <<alo, blo, 0>>
       ELSE CHOOSE t \in Blocks :
               \A u \in Blocks :
                   \/ t[3] > u[3]
                   \/ t[3] = u[3] /\ t[1] < u[1]
                   \/ t[3] = u[3] /\ t[1] = u[1] /\ t[2] <= u[2]

\* The total size of SequenceMatcher.get_matching_blocks: the longest block, then
\* the same to its left and to its right.
RECURSIVE MatchingSize(_, _, _, _, _, _)
MatchingSize(a, b, alo, ahi, blo, bhi) ==
    IF alo >= ahi \/ blo >= bhi THEN 0
    ELSE LET m == find_longest_match(a, b, alo, ahi, blo, bhi)
         IN IF m[3] = 0 THEN 0
            ELSE m[3] + MatchingSize(a, b, alo, m[1], blo, m[2])
                      + MatchingSize(a, b, m[1] + m[3], ahi, m[2] + m[3], bhi)

\* SequenceMatcher(None, a, b).ratio() = 2.0 * matches / (len(a) + len(b)), 1.0 for
\* two empty texts; kept exact as the fraction <<numerator, denominator>>.
SequenceRatio(a, b) ==
    IF Len(a) + Len(b) = 0 THEN <<1, 1>>
    ELSE <<2 * MatchingSize(a, b, 0, Len(a), 0, Len(b)), Len(a) + Len(b)>>

\* The ratios of the texts of the model, computed once
Texts == Titles \cup FuzzyTitles \cup Messages
RatioTable == [p \in Texts \X Texts |-> SequenceRatio(p[1], p[2])]

\* similarity = title_sim * 0.6 + msg_sim * 0.4, in percent, as a fraction
Similarity(alert, existing) ==
    LET t == RatioTable[<<alert.title, existing.title>>]
        m == RatioTable[<<alert.message, existing.message>>]
    IN <<title_weight_pct * t[1] * m[2] + message_weight_pct * m[1] * t[2], t[2] * m[2]>>

FracGT(x, y) == x[1] * y[2] > y[1] * x[2]
FracGE(x, y) == x[1] * y[2] >= y[1] * x[2]

\* The loop of AlertDeduplicator._fuzzy_match over active_alerts.values(), from
\* entry i on, holding best_match (an index, 0 for None) and best_similarity.
RECURSIVE FuzzyScan(_, _, _, _, _)
FuzzyScan(alert, active, i, best_match, best_similarity) ==
    IF i > Len(active) THEN best_match
    ELSE LET existing == active[i].alert
             similarity == Similarity(alert, existing)
         IN IF existing.source # alert.source \/ existing.severity # alert.severity
            THEN FuzzyScan(alert, active, i + 1, best_match, best_similarity)
            ELSE IF ~within_time_window(alert, existing)
            THEN FuzzyScan(alert, active, i + 1, best_match, best_similarity)
            ELSE IF FracGT(similarity, best_similarity)
                    /\ FracGE(similarity, <<fuzzy_threshold_pct, 1>>)
            THEN FuzzyScan(alert, active, i + 1, i, similarity)
            ELSE FuzzyScan(alert, active, i + 1, best_match, best_similarity)

\* Fault: a _fuzzy_match that returns the first alert at or above the threshold
fuzzy_match_FirstAbove(alert, active) ==
    LET Above == {i \in 1..Len(active) :
                     /\ active[i].alert.source = alert.source
                     /\ active[i].alert.severity = alert.severity
                     /\ within_time_window(alert, active[i].alert)
                     /\ FracGE(Similarity(alert, active[i].alert), <<fuzzy_threshold_pct, 1>>)}
    IN IF Above = {} THEN 0 ELSE CHOOSE i \in Above : \A j \in Above : i <= j

\* Fault: a _fuzzy_match whose comparison is >=, so that of equally similar
\* alerts the last one iterated is returned
fuzzy_match_LastBest(alert, active) ==
    LET Above == {i \in 1..Len(active) :
                     /\ active[i].alert.source = alert.source
                     /\ active[i].alert.severity = alert.severity
                     /\ within_time_window(alert, active[i].alert)
                     /\ FracGE(Similarity(alert, active[i].alert), <<fuzzy_threshold_pct, 1>>)}
        Best == {i \in Above :
                    \A j \in Above : FracGE(Similarity(alert, active[i].alert),
                                            Similarity(alert, active[j].alert))}
    IN IF Above = {} THEN 0 ELSE CHOOSE i \in Best : \A j \in Best : i >= j

\* AlertDeduplicator._fuzzy_match: the index of the match in active, 0 for None
fuzzy_match(alert, active) ==
    FuzzyScan(alert, active, 1, 0, <<0, 1>>)

\* The position of a key in the dict, 0 when absent
KeyIndex(active, key) ==
    IF \E i \in 1..Len(active) : active[i].key = key
    THEN CHOOSE i \in 1..Len(active) : active[i].key = key
    ELSE 0

\* AlertDeduplicator.find_duplicate: the index in active of the alert returned
\* (the object itself, not a copy), 0 for None
find_duplicate(enabled, alert, active) ==
    IF ~enabled THEN 0
    ELSE LET i == KeyIndex(active, alert.fingerprint)
         IN IF i # 0 /\ within_time_window(alert, active[i].alert) THEN i
            ELSE fuzzy_match(alert, active)

\* Fault: a find_duplicate that merges the candidate into the alert it finds
FindDuplicateCall_Merging(enabled, alert, active) ==
    LET i == find_duplicate(enabled, alert, active)
    IN [ret |-> i, alert |-> alert,
        active |-> IF i = 0 THEN active
                   ELSE [active EXCEPT ![i].alert = merge_duplicate(@, alert)]]

\* A call of AlertDeduplicator.find_duplicate: what it returns, and its two
\* arguments as it leaves them (neither method assigns to the candidate, to the
\* map or to an alert in it)
FindDuplicateCall(enabled, alert, active) ==
    [ret |-> find_duplicate(enabled, alert, active), alert |-> alert, active |-> active]

-----------------------------------------------------------------------------
(* router.py: AlertRouter, models.py: RoutingRule *)

\* RoutingRule(name, severity_levels, channels): the lists as given, no tag and
\* no source filter
Rule(name, severity_levels, channels) ==
    [name |-> name, severity_levels |-> severity_levels, channels |-> channels,
     tags |-> <<>>, sources |-> <<>>]

\* Fault: a default rule set whose error rule leaves the webhook out
DefaultRules_ErrorNoWebhook ==
    << Rule("critical-all", <<"critical">>, <<"console", "file", "webhook", "email">>),
       Rule("error-standard", <<"error">>, <<"console", "file">>),
       Rule("warning-basic", <<"warning">>, <<"console", "file">>),
       Rule("info-console", <<"info">>, <<"console">>),
       Rule("debug-file", <<"debug">>, <<"file">>) >>

\* AlertRouter._setup_default_rules
DefaultRules ==
    << Rule("critical-all", <<"critical">>, <<"console", "file", "webhook", "email">>),
       Rule("error-standard", <<"error">>, <<"console", "file", "webhook">>),
       Rule("warning-basic", <<"warning">>, <<"console", "file">>),
       Rule("info-console", <<"info">>, <<"console">>),
       Rule("debug-file", <<"debug">>, <<"file">>) >>

\* The elements of a list
Range(list) == {list[i] : i \in DOMAIN list}

\* Fault: a matches() whose tag filter wants every rule tag on the alert
RuleMatches_AllTags(rule, alert) ==
    IF alert.severity \notin Range(rule.severity_levels) THEN FALSE
    ELSE IF rule.sources # <<>> /\ alert.source \notin Range(rule.sources) THEN FALSE
    ELSE IF rule.tags # <<>> /\ ~(\A i \in DOMAIN rule.tags : rule.tags[i] \in Range(alert.tags))
    THEN FALSE
    ELSE TRUE

\* RoutingRule.matches
RuleMatches(rule, alert) ==
    IF alert.severity \notin Range(rule.severity_levels) THEN FALSE
    ELSE IF rule.sources # <<>> /\ alert.source \notin Range(rule.sources) THEN FALSE
    ELSE IF rule.tags # <<>> /\ ~(\E i \in DOMAIN rule.tags : rule.tags[i] \in Range(alert.tags))
    THEN FALSE
    ELSE TRUE

\* Fault: a route that stops at the first rule that matches
RECURSIVE RouteLoop_FirstMatch(_, _, _, _)
RouteLoop_FirstMatch(rs, i, alert, channels) ==
    IF i > Len(rs) THEN channels
    ELSE IF RuleMatches(rs[i], alert) THEN Range(rs[i].channels)
    ELSE RouteLoop_FirstMatch(rs, i + 1, alert, channels)

route_FirstMatch(rs, alert) ==
    RouteLoop_FirstMatch(rs, 1, alert, {})

\* The loop of AlertRouter.route from rule i on: channels.update(rule.channels)
\* for every rule that matches
RECURSIVE RouteLoop(_, _, _, _)
RouteLoop(rs, i, alert, channels) ==
    IF i > Len(rs) THEN channels
    ELSE IF RuleMatches(rs[i], alert)
    THEN RouteLoop(rs, i + 1, alert, channels \cup Range(rs[i].channels))
    ELSE RouteLoop(rs, i + 1, alert, channels)

\* AlertRouter.route: the set `channels` the loop has built, which the method
\* returns as list(channels)
route(rs, alert) ==
    RouteLoop(rs, 1, alert, {})

\* list(channels): the elements of the set, each once, in the set's own order
ListOf(set) ==
    CHOOSE list \in [1..Cardinality(set) -> set] : Range(list) = set

-----------------------------------------------------------------------------
(* storage.py: AlertStorage. A write takes, besides its arguments, whether the *)
(* database fails it (sqlite3.Error: locked, unreachable, corrupt).            *)

\* json.dumps of a metadata dict (string keys, string values): the text of a
\* JSON object, kept as the list of its <<key, value>> members
json_dumps(metadata) ==
    LET members == {<<k, metadata[k]>> : k \in DOMAIN metadata}
    IN CHOOSE text \in [1..Cardinality(members) -> members] : Range(text) = members

\* json.loads of such a text: the dict of its members
json_loads(text) ==
    [k \in {text[i][1] : i \in DOMAIN text} |->
        text[CHOOSE i \in DOMAIN text :
                /\ text[i][1] = k
                /\ \A j \in DOMAIN text : text[j][1] = k => j <= i][2]]

\* AlertStorage.store_alert: INSERT, refused when the primary key exists; the
\* metadata column holds the JSON text
store_alert(db, alert, fail) ==
    IF fail \/ alert.id \in DOMAIN db
    THEN [ok |-> FALSE, db |-> db]
    ELSE [ok |-> TRUE, db |-> [i \in (DOMAIN db) \cup {alert.id} |->
                                  IF i = alert.id
                                  THEN [alert EXCEPT !.metadata = json_dumps(alert.metadata)]
                                  ELSE db[i]]]

\* Fault: an update_alert whose UPDATE leaves the duplicate_count column out
update_alert_NoCount(db, alert, fail) ==
    IF fail THEN [ok |-> FALSE, db |-> db]
    ELSE [ok |-> TRUE,
          db |-> [i \in DOMAIN db |->
                     IF i = alert.id
                     THEN [db[i] EXCEPT
                              !.status = alert.status,
                              !.last_seen = alert.last_seen,
                              !.acknowledged_at = alert.acknowledged_at,
                              !.resolved_at = alert.resolved_at,
                              !.acknowledged_by = alert.acknowledged_by,
                              !.metadata = json_dumps(alert.metadata)]
                     ELSE db[i]]]

\* Fault: an update_alert that also rewrites the content columns
update_alert_WritesContent(db, alert, fail) ==
    IF fail THEN [ok |-> FALSE, db |-> db]
    ELSE [ok |-> TRUE,
          db |-> [i \in DOMAIN db |->
                     IF i = alert.id
                     THEN [alert EXCEPT !.metadata = json_dumps(alert.metadata)]
                     ELSE db[i]]]

\* AlertStorage.update_alert: UPDATE ... WHERE id = ?, of the mutable columns
\* only; no row with that id is no error
update_alert(db, alert, fail) ==
    IF fail THEN [ok |-> FALSE, db |-> db]
    ELSE [ok |-> TRUE,
          db |-> [i \in DOMAIN db |->
                     IF i = alert.id
                     THEN [db[i] EXCEPT
                              !.status = alert.status,
                              !.duplicate_count = alert.duplicate_count,
                              !.last_seen = alert.last_seen,
                              !.acknowledged_at = alert.acknowledged_at,
                              !.resolved_at = alert.resolved_at,
                              !.acknowledged_by = alert.acknowledged_by,
                              !.metadata = json_dumps(alert.metadata)]
                     ELSE db[i]]]

\* AlertStorage._row_to_alert: a fresh Alert built from the row
row_to_alert(row) ==
    [row EXCEPT !.metadata = IF row.metadata # <<>> THEN json_loads(row.metadata) ELSE <<>>]

\* AlertStorage.get_alert: the Alert of the row, None when absent
get_alert(db, alert_id) ==
    IF alert_id \in DOMAIN db THEN row_to_alert(db[alert_id]) ELSE None

-----------------------------------------------------------------------------
(* aggregator.py: AlertAggregator *)

\* What a callback is handed, and what it can see of the aggregator when called:
\* whether the alert's row is in storage and how many alerts the stats count.
Event(event_type, alert, channels, db, st) ==
    [type |-> event_type, alert_id |-> alert.id, fingerprint |-> alert.fingerprint,
     duplicate_count |-> alert.duplicate_count, status |-> alert.status,
     channels |-> channels,
     persisted |-> alert.id \in DOMAIN db,
     stored_count |-> IF alert.id \in DOMAIN db THEN db[alert.id].duplicate_count ELSE 0,
     stored_status |-> IF alert.id \in DOMAIN db THEN db[alert.id].status ELSE None,
     total_alerts |-> st.total_alerts]

\* The loop of AlertAggregator._trigger_callbacks from callback i on: each
\* callback is called inside its own try/except Exception. calls are the calls
\* made, raised whether an exception leaves the loop.
RECURSIVE CallbackLoop(_, _, _, _)
CallbackLoop(cbs, i, event, calls) ==
    IF i > Len(cbs) THEN [calls |-> calls, raised |-> FALSE]
    ELSE LET called == Append(calls, [cb |-> i, event |-> event])
         IN IF cbs[i] = "raise"
            THEN CallbackLoop(cbs, i + 1, event, called)   \* except Exception: logged
            ELSE CallbackLoop(cbs, i + 1, event, called)

\* Fault: a _trigger_callbacks with no try/except, which the first raising
\* callback leaves
RECURSIVE CallbackLoop_NoCatch(_, _, _, _)
CallbackLoop_NoCatch(cbs, i, event, calls) ==
    IF i > Len(cbs) THEN [calls |-> calls, raised |-> FALSE]
    ELSE LET called == Append(calls, [cb |-> i, event |-> event])
         IN IF cbs[i] = "raise"
            THEN [calls |-> called, raised |-> TRUE]
            ELSE CallbackLoop_NoCatch(cbs, i + 1, event, called)

trigger_callbacks_NoCatch(cbs, event) ==
    CallbackLoop_NoCatch(cbs, 1, event, <<>>)

\* AlertAggregator._trigger_callbacks
trigger_callbacks(cbs, event) ==
    CallbackLoop(cbs, 1, event, <<>>)

\* AlertAggregator._route_alert
route_alert(cbs, rs, alert, db, st) ==
    LET channels == route(rs, alert)
    IN IF channels # {}
       THEN trigger_callbacks(cbs, Event("alert_routed", alert, channels, db, st))
       ELSE [calls |-> <<>>, raised |-> FALSE]

\* active_alerts[key] = alert: an existing key keeps its place in the dict
DictSet(active, key, alert) ==
    IF KeyIndex(active, key) # 0
    THEN [active EXCEPT ![KeyIndex(active, key)] = [key |-> key, alert |-> alert]]
    ELSE Append(active, [key |-> key, alert |-> alert])

\* del active_alerts[key]
DictDel(active, key) ==
    SelectSeq(active, LAMBDA e : e.key # key)

\* What a call did: the aggregator's state after it, "returned" or "raised", the
\* value returned, the id of the alert merged into (0: none), the callback calls.
Result(active, db, st, outcome, ret, ret_alert, merged_into, calls) ==
    [active |-> active, db |-> db, stats |-> st, outcome |-> outcome, ret |-> ret,
     ret_id |-> ret_alert.id, ret_count |-> ret_alert.duplicate_count,
     merged_into |-> merged_into, calls |-> calls]

NoAlert == NewAlert(0, None, None, <<>>, <<>>, NoTime)

\* Fault: a merge branch that also counts the duplicate with stats.update
IngestMerge_CountsAlert(active, db, st, cbs, alert, idx, fail) ==
    LET existing == merge_duplicate(active[idx].alert, alert)
        active1 == [active EXCEPT ![idx].alert = existing]
        upd == update_alert(db, existing, fail)
        st1 == [StatsUpdate(st, alert) EXCEPT !.duplicates_merged = @ + 1]
        tc == trigger_callbacks(cbs, Event("duplicate_merged", existing, {}, upd.db, st1))
    IN IF ~upd.ok THEN Result(active1, db, st, "raised", None, NoAlert, existing.id, <<>>)
       ELSE IF tc.raised
       THEN Result(active1, upd.db, st1, "raised", None, NoAlert, existing.id, tc.calls)
       ELSE Result(active1, upd.db, st1, "returned", "existing", existing, existing.id, tc.calls)

\* AlertAggregator.ingest, the branch that merges into active[idx]
IngestMerge(active, db, st, cbs, alert, idx, fail) ==
    LET existing == merge_duplicate(active[idx].alert, alert)
        active1 == [active EXCEPT ![idx].alert = existing]
        upd == update_alert(db, existing, fail)
        st1 == [st EXCEPT !.duplicates_merged = @ + 1]
        tc == trigger_callbacks(cbs, Event("duplicate_merged", existing, {}, upd.db, st1))
    IN IF ~upd.ok THEN Result(active1, db, st, "raised", None, NoAlert, existing.id, <<>>)
       ELSE IF tc.raised
       THEN Result(active1, upd.db, st1, "raised", None, NoAlert, existing.id, tc.calls)
       ELSE Result(active1, upd.db, st1, "returned", "existing", existing, existing.id, tc.calls)

\* Fault: a new-alert branch that logs a failed INSERT and goes on
IngestNew_SwallowsStoreError(active, db, st, cbs, rs, alert, fail) ==
    LET active1 == DictSet(active, alert.fingerprint, alert)
        ins == store_alert(db, alert, fail)
        st1 == StatsUpdate(st, alert)
        routed == route_alert(cbs, rs, alert, ins.db, st1)
        tc == trigger_callbacks(cbs, Event("alert_ingested", alert, {}, ins.db, st1))
    IN IF routed.raised
       THEN Result(active1, ins.db, st1, "raised", None, NoAlert, 0, routed.calls)
       ELSE IF tc.raised
       THEN Result(active1, ins.db, st1, "raised", None, NoAlert, 0, routed.calls \o tc.calls)
       ELSE Result(active1, ins.db, st1, "returned", "candidate", alert, 0,
                   routed.calls \o tc.calls)

\* Fault: a new-alert branch that routes and notifies before it stores and counts
IngestNew_NotifiesFirst(active, db, st, cbs, rs, alert, fail) ==
    LET active1 == DictSet(active, alert.fingerprint, alert)
        routed == route_alert(cbs, rs, alert, db, st)
        tc == trigger_callbacks(cbs, Event("alert_ingested", alert, {}, db, st))
        ins == store_alert(db, alert, fail)
        st1 == StatsUpdate(st, alert)
    IN IF routed.raised
       THEN Result(active1, db, st, "raised", None, NoAlert, 0, routed.calls)
       ELSE IF tc.raised
       THEN Result(active1, db, st, "raised", None, NoAlert, 0, routed.calls \o tc.calls)
       ELSE IF ~ins.ok
       THEN Result(active1, db, st, "raised", None, NoAlert, 0, routed.calls \o tc.calls)
       ELSE Result(active1, ins.db, st1, "returned", "candidate", alert, 0,
                   routed.calls \o tc.calls)

\* AlertAggregator.ingest, the branch that takes the alert as a new unique alert
IngestNew(active, db, st, cbs, rs, alert, fail) ==
    LET active1 == DictSet(active, alert.fingerprint, alert)
        ins == store_alert(db, alert, fail)
        st1 == StatsUpdate(st, alert)
        routed == route_alert(cbs, rs, alert, ins.db, st1)
        tc == trigger_callbacks(cbs, Event("alert_ingested", alert, {}, ins.db, st1))
    IN IF ~ins.ok THEN Result(active1, db, st, "raised", None, NoAlert, 0, <<>>)
       ELSE IF routed.raised
       THEN Result(active1, ins.db, st1, "raised", None, NoAlert, 0, routed.calls)
       ELSE IF tc.raised
       THEN Result(active1, ins.db, st1, "raised", None, NoAlert, 0, routed.calls \o tc.calls)
       ELSE Result(active1, ins.db, st1, "returned", "candidate", alert, 0,
                   routed.calls \o tc.calls)

\* Fault: an ingest that looks for a duplicate whether or not deduplication is
\* enabled
Ingest_DedupsAnyway(enabled, active, db, st, cbs, rs, alert, fail) ==
    LET existing == find_duplicate(TRUE, alert, active)
    IN IF existing # 0
       THEN IngestMerge(active, db, st, cbs, alert, existing, fail)
       ELSE IngestNew(active, db, st, cbs, rs, alert, fail)

\* AlertAggregator.ingest
Ingest(enabled, active, db, st, cbs, rs, alert, fail) ==
    LET existing == IF enabled THEN find_duplicate(enabled, alert, active) ELSE 0
    IN IF existing # 0
       THEN IngestMerge(active, db, st, cbs, alert, existing, fail)
       ELSE IngestNew(active, db, st, cbs, rs, alert, fail)

\* Fault: an acknowledge with no check of what get_alert returned, so that
\* None.acknowledge raises
Acknowledge_NoNotFoundCheck(active, db, st, cbs, alert_id, by, at, fail) ==
    IF alert_id \notin DOMAIN db
    THEN Result(active, db, st, "raised", None, NoAlert, 0, <<>>)
    ELSE LET alert == AlertAcknowledge(get_alert(db, alert_id), by, at)
             upd == update_alert(db, alert, fail)
             active1 == IF KeyIndex(active, alert.fingerprint) # 0
                        THEN DictSet(active, alert.fingerprint, alert)
                        ELSE active
             tc == trigger_callbacks(cbs, Event("alert_acknowledged", alert, {}, upd.db, st))
         IN IF ~upd.ok THEN Result(active, db, st, "raised", None, NoAlert, 0, <<>>)
            ELSE IF tc.raised
            THEN Result(active1, upd.db, st, "raised", None, NoAlert, 0, tc.calls)
            ELSE Result(active1, upd.db, st, "returned", "True", alert, 0, tc.calls)

\* Fault: an acknowledge that rejects an alert already resolved or dismissed
Acknowledge_RejectsClosed(active, db, st, cbs, alert_id, by, at, fail) ==
    IF alert_id \notin DOMAIN db
    THEN Result(active, db, st, "returned", "False", NoAlert, 0, <<>>)
    ELSE IF db[alert_id].status \in {"resolved", "dismissed"}
    THEN Result(active, db, st, "returned", "False", NoAlert, 0, <<>>)
    ELSE LET alert == AlertAcknowledge(get_alert(db, alert_id), by, at)
             upd == update_alert(db, alert, fail)
             active1 == IF KeyIndex(active, alert.fingerprint) # 0
                        THEN DictSet(active, alert.fingerprint, alert)
                        ELSE active
             tc == trigger_callbacks(cbs, Event("alert_acknowledged", alert, {}, upd.db, st))
         IN IF ~upd.ok THEN Result(active, db, st, "raised", None, NoAlert, 0, <<>>)
            ELSE IF tc.raised
            THEN Result(active1, upd.db, st, "raised", None, NoAlert, 0, tc.calls)
            ELSE Result(active1, upd.db, st, "returned", "True", alert, 0, tc.calls)

\* Fault: an acknowledge that updates the row and leaves the active map's Alert
\* as it was
Acknowledge_RowOnly(active, db, st, cbs, alert_id, by, at, fail) ==
    IF alert_id \notin DOMAIN db
    THEN Result(active, db, st, "returned", "False", NoAlert, 0, <<>>)
    ELSE LET alert == AlertAcknowledge(get_alert(db, alert_id), by, at)
             upd == update_alert(db, alert, fail)
             tc == trigger_callbacks(cbs, Event("alert_acknowledged", alert, {}, upd.db, st))
         IN IF ~upd.ok THEN Result(active, db, st, "raised", None, NoAlert, 0, <<>>)
            ELSE IF tc.raised
            THEN Result(active, upd.db, st, "raised", None, NoAlert, 0, tc.calls)
            ELSE Result(active, upd.db, st, "returned", "True", alert, 0, tc.calls)

\* AlertAggregator.acknowledge
Acknowledge(active, db, st, cbs, alert_id, by, at, fail) ==
    IF alert_id \notin DOMAIN db
    THEN Result(active, db, st, "returned", "False", NoAlert, 0, <<>>)
    ELSE LET alert == AlertAcknowledge(get_alert(db, alert_id), by, at)
             upd == update_alert(db, alert, fail)
             active1 == IF KeyIndex(active, alert.fingerprint) # 0
                        THEN DictSet(active, alert.fingerprint, alert)
                        ELSE active
             tc == trigger_callbacks(cbs, Event("alert_acknowledged", alert, {}, upd.db, st))
         IN IF ~upd.ok THEN Result(active, db, st, "raised", None, NoAlert, 0, <<>>)
            ELSE IF tc.raised
            THEN Result(active1, upd.db, st, "raised", None, NoAlert, 0, tc.calls)
            ELSE Result(active1, upd.db, st, "returned", "True", alert, 0, tc.calls)

\* Fault: a resolve that leaves the alert in the active map
Resolve_KeepsActive(active, db, st, cbs, alert_id, at, fail) ==
    IF alert_id \notin DOMAIN db
    THEN Result(active, db, st, "returned", "False", NoAlert, 0, <<>>)
    ELSE LET alert == AlertResolve(get_alert(db, alert_id), at)
             upd == update_alert(db, alert, fail)
             tc == trigger_callbacks(cbs, Event("alert_resolved", alert, {}, upd.db, st))
         IN IF ~upd.ok THEN Result(active, db, st, "raised", None, NoAlert, 0, <<>>)
            ELSE IF tc.raised
            THEN Result(active, upd.db, st, "raised", None, NoAlert, 0, tc.calls)
            ELSE Result(active, upd.db, st, "returned", "True", alert, 0, tc.calls)

\* AlertAggregator.resolve
Resolve(active, db, st, cbs, alert_id, at, fail) ==
    IF alert_id \notin DOMAIN db
    THEN Result(active, db, st, "returned", "False", NoAlert, 0, <<>>)
    ELSE LET alert == AlertResolve(get_alert(db, alert_id), at)
             upd == update_alert(db, alert, fail)
             active1 == IF KeyIndex(active, alert.fingerprint) # 0
                        THEN DictDel(active, alert.fingerprint)
                        ELSE active
             tc == trigger_callbacks(cbs, Event("alert_resolved", alert, {}, upd.db, st))
         IN IF ~upd.ok THEN Result(active, db, st, "raised", None, NoAlert, 0, <<>>)
            ELSE IF tc.raised
            THEN Result(active1, upd.db, st, "raised", None, NoAlert, 0, tc.calls)
            ELSE Result(active1, upd.db, st, "returned", "True", alert, 0, tc.calls)

-----------------------------------------------------------------------------
(* The calls of Spec: one AlertAggregator, its operations called one at a time *)

\* The record of a call kept in lastOp. resolved_ids: the resolved alerts of the
\* candidate's fingerprint that no ingest of that fingerprint has followed yet.
OpRecord(op, alert, alert_id, fail, r, resolved_ids) ==
    [op |-> op, alert |-> alert, id |-> alert_id, fail |-> fail,
     outcome |-> r.outcome, ret |-> r.ret, ret_id |-> r.ret_id, ret_count |-> r.ret_count,
     merged_into |-> r.merged_into, calls |-> r.calls, resolved_ids |-> resolved_ids]

NoResult == Result(<<>>, <<>>, InitStats, "returned", None, NoAlert, 0, <<>>)

NoRun == [n |-> 0, fp |-> <<>>, tmin |-> 0, tmax |-> 0, clean |-> FALSE]

\* The run after an ingest of alert that found the active map `active` and the
\* table `db`: a run starts with an ingest that finds no active alert, and goes
\* on with ingests of the same fingerprint whose timestamps all lie within the
\* window of one another. clean: no row of that fingerprint was stored before.
RunAfterIngest(r, active, db, alert, outcome) ==
    IF outcome # "returned" THEN NoRun
    ELSE IF active = <<>>
    THEN [n |-> 1, fp |-> alert.fingerprint, tmin |-> alert.timestamp,
          tmax |-> alert.timestamp,
          clean |-> \A i \in DOMAIN db : db[i].fingerprint # alert.fingerprint]
    ELSE IF /\ r.n >= 1
            /\ r.fp = alert.fingerprint
            /\ Max(r.tmax, alert.timestamp) - Min(r.tmin, alert.timestamp) <= time_window
    THEN [r EXCEPT !.n = @ + 1, !.tmin = Min(@, alert.timestamp),
                   !.tmax = Max(@, alert.timestamp)]
    ELSE NoRun

\* Whether the database fails the write of this call
Fails == IF nFaults < MaxFaults THEN BOOLEAN ELSE {FALSE}

Install(r, failed) ==
    /\ active_alerts' = r.active
    /\ storage' = r.db
    /\ stats' = r.stats
    /\ nFaults' = IF failed THEN nFaults + 1 ELSE nFaults

DoIngest ==
    \E source \in Sources, severity \in IngestSeverities, title \in Titles,
       message \in Messages, timestamp \in Times, fail \in Fails :
        LET alert == NewAlert(nextId, source, severity, title, message, timestamp)
            r == Ingest(dedup_enabled, active_alerts, storage, stats, callbacks, rules,
                        alert, fail)
            resolved_ids == {p.id : p \in {q \in pending : q.fp = alert.fingerprint}}
        IN /\ now < MaxOps
           /\ Install(r, fail)
           /\ lastOp' = OpRecord("ingest", alert, 0, fail, r, resolved_ids)
           /\ nextId' = nextId + 1
           /\ now' = now + 1
           /\ nIngest' = IF r.outcome = "returned" THEN nIngest + 1 ELSE nIngest
           /\ nMerged' = IF r.outcome = "returned" /\ r.ret = "existing"
                         THEN nMerged + 1 ELSE nMerged
           /\ run' = RunAfterIngest(run, active_alerts, storage, alert, r.outcome)
           /\ pending' = {q \in pending : q.fp # alert.fingerprint}
           /\ UNCHANGED <<dedup_enabled, callbacks, rules, threads>>

DoAcknowledge ==
    \E alert_id \in (DOMAIN storage) \cup {nextId}, by \in Users, fail \in Fails :
        LET r == Acknowledge(active_alerts, storage, stats, callbacks, alert_id, by, now, fail)
        IN /\ now < MaxOps
           /\ Install(r, fail /\ alert_id \in DOMAIN storage)
           /\ lastOp' = OpRecord("acknowledge", NoAlert, alert_id, fail, r, {})
           /\ now' = now + 1
           /\ run' = NoRun
           /\ UNCHANGED <<dedup_enabled, callbacks, rules, nextId, nIngest, nMerged,
                          pending, threads>>

DoResolve ==
    \E alert_id \in (DOMAIN storage) \cup {nextId}, fail \in Fails :
        LET r == Resolve(active_alerts, storage, stats, callbacks, alert_id, now, fail)
        IN /\ now < MaxOps
           /\ Install(r, fail /\ alert_id \in DOMAIN storage)
           /\ lastOp' = OpRecord("resolve", NoAlert, alert_id, fail, r, {})
           /\ now' = now + 1
           /\ run' = NoRun
           /\ pending' = IF r.outcome = "returned" /\ r.ret = "True"
                         THEN pending \cup {[fp |-> storage[alert_id].fingerprint,
                                             id |-> alert_id]}
                         ELSE pending
           /\ UNCHANGED <<dedup_enabled, callbacks, rules, nextId, nIngest, nMerged, threads>>

\* AlertAggregator.add_callback, of a callback that returns or one that raises
AddCallback ==
    \E behaviour \in {"ok", "raise"} :
        /\ now < MaxOps
        /\ Len(callbacks) < MaxCallbacks
        /\ callbacks' = Append(callbacks, behaviour)
        /\ lastOp' = OpRecord("add_callback", NoAlert, 0, FALSE, NoResult, {})
        /\ now' = now + 1
        /\ UNCHANGED <<dedup_enabled, active_alerts, storage, stats, rules, nextId,
                       nFaults, nIngest, nMerged, run, pending, threads>>

\* AlertRouter.clear_rules on the aggregator's router
ClearRules ==
    /\ now < MaxOps
    /\ rules # <<>>
    /\ rules' = <<>>
    /\ lastOp' = OpRecord("clear_rules", NoAlert, 0, FALSE, NoResult, {})
    /\ now' = now + 1
    /\ UNCHANGED <<dedup_enabled, active_alerts, storage, stats, callbacks, nextId,
                   nFaults, nIngest, nMerged, run, pending, threads>>

\* AlertAggregator.__init__(deduplication_enabled = enabled) on a new database
InitState(enabled) ==
    /\ dedup_enabled = enabled
    /\ active_alerts = <<>>
    /\ storage = <<>>
    /\ stats = InitStats
    /\ callbacks = <<>>
    /\ rules = DefaultRules
    /\ lastOp = OpRecord("init", NoAlert, 0, FALSE, NoResult, {})
    /\ nextId = 1
    /\ now = 0
    /\ nFaults = 0
    /\ nIngest = 0
    /\ nMerged = 0
    /\ run = NoRun
    /\ pending = {}

\* AlertAggregator.__init__ with its defaults
InitAggregator == InitState(TRUE)

\* one caller at a time: no producer thread
Init ==
    /\ InitAggregator
    /\ threads = <<>>

Next ==
    \/ DoIngest
    \/ DoAcknowledge
    \/ DoResolve
    \/ AddCallback
    \/ ClearRules

Spec == Init /\ [][Next]_vars

\* SpecNoDedup: the same calls on AlertAggregator(deduplication_enabled=False)
InitNoDedup ==
    /\ InitState(FALSE)
    /\ threads = <<>>

SpecNoDedup == InitNoDedup /\ [][Next]_vars

-----------------------------------------------------------------------------
(* Properties of Spec *)

StoredWith(fp) == {i \in DOMAIN storage : storage[i].fingerprint = fp}

ActiveCount(fp) ==
    IF KeyIndex(active_alerts, fp) = 0 THEN 0
    ELSE active_alerts[KeyIndex(active_alerts, fp)].alert.duplicate_count

OneRecordWithCount(fp, n) ==
    /\ Cardinality(StoredWith(fp)) = 1
    /\ \A i \in StoredWith(fp) : storage[i].duplicate_count = n
    /\ ActiveCount(fp) = n

IngestAfterResolve ==
    /\ lastOp'.op = "ingest"
    /\ lastOp'.outcome = "returned"
    /\ lastOp'.resolved_ids # {}

StoredAsNew ==
    /\ lastOp'.ret = "candidate"
    /\ lastOp'.ret_id = lastOp'.alert.id
    /\ lastOp'.ret_count = 1
    /\ lastOp'.alert.id \notin DOMAIN storage
    /\ lastOp'.alert.id \in DOMAIN storage'
    /\ storage'[lastOp'.alert.id].duplicate_count = 1
    /\ storage'[lastOp'.alert.id].fingerprint = lastOp'.alert.fingerprint

ResolvedRowsKept ==
    \A i \in lastOp'.resolved_ids :
        /\ i \in DOMAIN storage'
        /\ storage'[i].duplicate_count = storage[i].duplicate_count
        /\ lastOp'.merged_into # i

\* C2 as stated: after resolve(id) returned true for an alert of fingerprint F,
\* the next ingest of fingerprint F is not merged: it returns the new alert with
\* duplicate_count 1, stores it as another row, and leaves the resolved row's
\* duplicate_count alone.
C2_NeverMergedAfterResolve ==
    [][IngestAfterResolve => (StoredAsNew /\ ResolvedRowsKept)]_vars

\* C2 amended: that ingest is never merged into the resolved alert nor into any
\* alert of fingerprint F and leaves the resolved row alone; it returns and
\* stores the new alert unless the fuzzy fallback finds an active alert of
\* another fingerprint, into which it is then merged.
C2_NewAfterResolve ==
    [][IngestAfterResolve =>
        /\ ResolvedRowsKept
        /\ KeyIndex(active_alerts, lastOp'.alert.fingerprint) = 0
        /\ IF fuzzy_match(lastOp'.alert, active_alerts) = 0
           THEN StoredAsNew
           ELSE LET target == active_alerts[fuzzy_match(lastOp'.alert, active_alerts)].alert
                IN /\ lastOp'.ret = "existing"
                   /\ lastOp'.merged_into = target.id
                   /\ target.fingerprint # lastOp'.alert.fingerprint]_vars

C2_Witness ==
    /\ lastOp.op = "ingest"
    /\ lastOp.outcome = "returned"
    /\ lastOp.resolved_ids # {}
    /\ lastOp.ret = "candidate"
    /\ Cardinality(StoredWith(lastOp.alert.fingerprint)) = 2
    /\ \A i \in StoredWith(lastOp.alert.fingerprint) : storage[i].duplicate_count = 1

\* C3: with deduplication enabled, an ingest whose fingerprint is that of an
\* active alert, at a timestamp further than the window from that alert's, does
\* not merge the two: the earlier alert keeps its duplicate_count, the later one
\* is stored as a new record of duplicate_count 1, and afterwards each of the two
\* is an active alert.
C3_BothStayActive ==
    [][(/\ dedup_enabled
        /\ lastOp'.op = "ingest"
        /\ lastOp'.outcome = "returned"
        /\ KeyIndex(active_alerts, lastOp'.alert.fingerprint) # 0
        /\ ~within_time_window(
              lastOp'.alert,
              active_alerts[KeyIndex(active_alerts, lastOp'.alert.fingerprint)].alert))
       => LET earlier == active_alerts[KeyIndex(active_alerts, lastOp'.alert.fingerprint)].alert
          IN /\ lastOp'.merged_into # earlier.id
             /\ lastOp'.ret = "candidate"
             /\ lastOp'.alert.id \in DOMAIN storage'
             /\ storage'[lastOp'.alert.id].duplicate_count = 1
             /\ \E i \in 1..Len(active_alerts') :
                   /\ active_alerts'[i].alert.id = earlier.id
                   /\ active_alerts'[i].alert.duplicate_count = earlier.duplicate_count
             /\ \E i \in 1..Len(active_alerts') :
                   active_alerts'[i].alert.id = lastOp'.alert.id]_vars

\* C4: after any calls, N ingests having returned of which D merged,
\* stats.total_alerts = N - D and stats.duplicates_merged = D.
C4_StatsConsistency ==
    /\ stats.total_alerts = nIngest - nMerged
    /\ stats.duplicates_merged = nMerged

C4_Witness ==
    /\ lastOp.op \in {"acknowledge", "resolve"}
    /\ lastOp.ret = "True"
    /\ nMerged >= 1
    /\ nIngest - nMerged >= 1
    /\ stats.total_alerts = nIngest - nMerged

\* The step is acknowledge or resolve of an id that has no row.
UnknownIdCall ==
    /\ lastOp'.op \in {"acknowledge", "resolve"}
    /\ lastOp'.id \notin DOMAIN storage

\* C7: acknowledge(id) and resolve(id) of an id that is not in storage return
\* false without raising, fire no event, and leave storage, the active map and
\* the stats unchanged.
C7_UnknownIdIsSoft ==
    [][UnknownIdCall =>
        /\ lastOp'.outcome = "returned"
        /\ lastOp'.ret = "False"
        /\ lastOp'.calls = <<>>
        /\ storage' = storage
        /\ active_alerts' = active_alerts
        /\ stats' = stats]_vars

C7_Witness ==
    /\ lastOp.op = "resolve"
    /\ lastOp.id \notin DOMAIN storage
    /\ lastOp.ret = "False"
    /\ storage # <<>>
    /\ active_alerts # <<>>
    /\ callbacks # <<>>

\* The event types the last call fired, in order
TypesFired ==
    IF lastOp.outcome = "raised" THEN <<>>
    ELSE IF lastOp.op = "ingest" /\ lastOp.ret = "existing" THEN <<"duplicate_merged">>
    ELSE IF lastOp.op = "ingest"
    THEN (IF route(rules, lastOp.alert) # {} THEN <<"alert_routed">> ELSE <<>>)
         \o <<"alert_ingested">>
    ELSE IF lastOp.op = "acknowledge" /\ lastOp.ret = "True" THEN <<"alert_acknowledged">>
    ELSE IF lastOp.op = "resolve" /\ lastOp.ret = "True" THEN <<"alert_resolved">>
    ELSE <<>>

\* Every registered callback was called once per event fired, in registration
\* order, and nothing but a failed storage write made the call raise.
EveryCallbackCalled ==
    LET n == Len(callbacks)
        c == lastOp.calls
    IN /\ Len(c) = n * Len(TypesFired)
       /\ \A k \in 1..Len(c) :
             /\ c[k].cb = ((k - 1) % n) + 1
             /\ c[k].event.type = TypesFired[((k - 1) \div n) + 1]
             /\ c[k].event = c[k - ((k - 1) % n)].event
       /\ lastOp.outcome = "raised" => lastOp.fail

AllOk(cbs) == [i \in DOMAIN cbs |-> "ok"]

SameAs(r) ==
    /\ active_alerts' = r.active
    /\ storage' = r.db
    /\ stats' = r.stats
    /\ lastOp'.outcome = r.outcome
    /\ lastOp'.ret = r.ret
    /\ lastOp'.ret_id = r.ret_id
    /\ lastOp'.ret_count = r.ret_count
    /\ lastOp'.calls = r.calls

\* The step changes the state and returns as the same call does with callbacks
\* that never raise.
SameAsWithoutFailingCallbacks ==
    /\ lastOp'.op = "ingest" =>
          SameAs(Ingest(dedup_enabled, active_alerts, storage, stats, AllOk(callbacks),
                        rules, lastOp'.alert, lastOp'.fail))
    /\ lastOp'.op = "acknowledge" =>
          \E by \in Users :
              SameAs(Acknowledge(active_alerts, storage, stats, AllOk(callbacks),
                                 lastOp'.id, by, now, lastOp'.fail))
    /\ lastOp'.op = "resolve" =>
          SameAs(Resolve(active_alerts, storage, stats, AllOk(callbacks),
                         lastOp'.id, now, lastOp'.fail))

\* C8: for every event ingest, acknowledge or resolve fires, every registered
\* callback is called exactly once, in registration order, also after a callback
\* that raised; no callback's exception leaves the call, and the call changes the
\* state and returns as it does when no callback fails.
C8_CallbackIsolation ==
    /\ []EveryCallbackCalled
    /\ [][SameAsWithoutFailingCallbacks]_vars

C8_Witness ==
    /\ lastOp.op = "ingest"
    /\ lastOp.outcome = "returned"
    /\ callbacks = <<"raise", "ok">>
    /\ Len(lastOp.calls) = 4
    /\ lastOp.calls[2].cb = 2
    /\ lastOp.calls[4].event.type = "alert_ingested"

\* The last call made a storage write and the database failed it.
StorageWriteFailed ==
    /\ lastOp.fail
    /\ \/ lastOp.op = "ingest"
       \/ lastOp.op \in {"acknowledge", "resolve"} /\ lastOp.id \in DOMAIN storage

\* C9: when the storage write inside ingest, acknowledge or resolve fails, the
\* call raises to its caller; it never returns as though the alert were persisted.
C9_StorageFailurePropagates ==
    StorageWriteFailed => (lastOp.outcome = "raised" /\ lastOp.ret = None)

C9_Witness ==
    /\ lastOp.op = "ingest"
    /\ lastOp.fail
    /\ lastOp.outcome = "raised"
    /\ lastOp.alert.id \notin DOMAIN storage

\* The calls an event makes: one per registered callback, in order
CallsOf(event) == [i \in 1..Len(callbacks) |-> [cb |-> i, event |-> event]]

\* The last call is an ingest that did not merge and returned.
IngestedAsNew ==
    /\ lastOp.op = "ingest"
    /\ lastOp.outcome = "returned"
    /\ lastOp.ret = "candidate"

\* The candidate is in the active map, in storage and counted, and the calls made
\* are those of `routed` and then of alert_ingested, each seeing the alert
\* persisted and counted.
NewAlertPipeline(emit_routed) ==
    LET a == lastOp.alert
    IN /\ KeyIndex(active_alerts, a.fingerprint) # 0
       /\ active_alerts[KeyIndex(active_alerts, a.fingerprint)].alert = a
       /\ a.id \in DOMAIN storage
       /\ storage[a.id] = a
       /\ lastOp.ret_id = a.id
       /\ lastOp.calls =
             (IF emit_routed
              THEN CallsOf(Event("alert_routed", a, route(rules, a), storage, stats))
              ELSE <<>>)
             \o CallsOf(Event("alert_ingested", a, {}, storage, stats))
       /\ \A k \in 1..Len(lastOp.calls) : lastOp.calls[k].event.persisted

\* The step of an ingest that did not merge: the insert in the active map comes
\* before the row (a failed write leaves the alert in the map, uncounted, with no
\* event), and the row and the count come together before the return.
NewAlertOrder ==
    /\ (lastOp'.op = "ingest" /\ lastOp'.merged_into = 0 /\ lastOp'.outcome = "raised") =>
          /\ KeyIndex(active_alerts', lastOp'.alert.fingerprint) # 0
          /\ storage' = storage
          /\ stats' = stats
          /\ lastOp'.calls = <<>>
    /\ (lastOp'.op = "ingest" /\ lastOp'.outcome = "returned" /\ lastOp'.ret = "candidate") =>
          /\ lastOp'.alert.id \notin DOMAIN storage
          /\ stats' = StatsUpdate(stats, lastOp'.alert)
          /\ \A k \in 1..Len(lastOp'.calls) :
                lastOp'.calls[k].event.total_alerts = stats.total_alerts + 1

\* C10 as stated: every ingest that does not merge inserts the candidate in the
\* active map, persists it, updates the stats, emits exactly one alert_routed
\* with the alert and its channel set, then exactly one alert_ingested, and
\* returns the candidate.
C10_AlwaysRouted ==
    IngestedAsNew => NewAlertPipeline(TRUE)

\* C10 amended: the same, with alert_routed emitted exactly once when the channel
\* set is not empty and not at all when no rule matches the alert.
C10_NewAlertPipeline ==
    /\ [](IngestedAsNew => NewAlertPipeline(route(rules, lastOp.alert) # {}))
    /\ [][NewAlertOrder]_vars

C10_Witness ==
    /\ IngestedAsNew
    /\ Len(callbacks) = 2
    /\ Len(lastOp.calls) = 4
    /\ lastOp.calls[1].event.type = "alert_routed"
    /\ lastOp.calls[1].event.channels = {"console", "file", "webhook"}
    /\ lastOp.calls[3].event.type = "alert_ingested"

-----------------------------------------------------------------------------
(* SpecConc: producer threads in AlertAggregator.ingest. The method takes no   *)
(* lock, so a call advances one statement (for a read-modify-write: its read   *)
(* or its write) at a time, and the steps of other threads' calls come in      *)
(* between. threads.heap holds the Alert objects by id: the active map and a   *)
(* thread's `existing` refer to the same object. No callback is registered and *)
(* the database fails no write.                                                *)

Threads == 1..NumThreads
ConcTimes == {0, time_window}

\* The alert every producer reports: one fingerprint, timestamps within the window
ConcAlert(id, timestamp) ==
    NewAlert(id, "db", "error", <<"d", "i", "s", "k", "1">>, <<"t", "o">>, timestamp)

\* A thread outside ingest. Inside: the candidate's id, the id of `existing`
\* (0: None), whether the call that created `existing` had returned when it was
\* found, and the values the thread has read and not yet written back.
IdleThread ==
    [pc |-> "idle", alert_id |-> 0, existing |-> 0, settled |-> FALSE,
     count |-> 0, row |-> NoAlert, read_stats |-> InitStats]

InitConc ==
    /\ InitAggregator
    /\ threads = [heap |-> <<>>, th |-> [t \in Threads |-> IdleThread], done |-> <<>>]

At(t, pc) == threads.th[t].pc = pc

Self(t) == threads.th[t]

\* The active map after a write of `value` to the Alert object it may hold
Synced(value) ==
    [i \in 1..Len(active_alerts) |->
        IF active_alerts[i].alert.id = value.id
        THEN [active_alerts[i] EXCEPT !.alert = value]
        ELSE active_alerts[i]]

\* the caller builds its Alert and enters ingest(alert)
CBegin(t) ==
    \E timestamp \in ConcTimes :
        /\ At(t, "idle")
        /\ nextId <= MaxCalls
        /\ threads' = [threads EXCEPT
              !.heap = [i \in (DOMAIN threads.heap) \cup {nextId} |->
                           IF i = nextId THEN ConcAlert(nextId, timestamp)
                           ELSE threads.heap[i]],
              !.th[t] = [IdleThread EXCEPT !.pc = "find", !.alert_id = nextId]]
        /\ nextId' = nextId + 1
        /\ UNCHANGED <<dedup_enabled, active_alerts, storage, stats, callbacks, rules,
                       lastOp, now, nFaults, nIngest, nMerged, run, pending>>

\* existing = self.deduplicator.find_duplicate(alert, self.active_alerts)
CFind(t) ==
    LET idx == find_duplicate(dedup_enabled, threads.heap[Self(t).alert_id],
                              active_alerts)
        found == IF idx = 0 THEN 0 ELSE active_alerts[idx].alert.id
    IN /\ At(t, "find")
       /\ threads' = [threads EXCEPT
             !.th[t].existing = found,
             !.th[t].settled = (found # 0 /\ \A u \in Threads : Self(u).alert_id # found),
             !.th[t].pc = IF found # 0 THEN "merge_read" ELSE "insert"]
       /\ UNCHANGED <<dedup_enabled, active_alerts, storage, stats, callbacks, rules,
                      lastOp, nextId, now, nFaults, nIngest, nMerged, run, pending>>

\* existing.merge_duplicate(alert): self.duplicate_count += 1, the read
CMergeRead(t) ==
    /\ At(t, "merge_read")
    /\ threads' = [threads EXCEPT
          !.th[t].count = threads.heap[Self(t).existing].duplicate_count,
          !.th[t].pc = "merge_write"]
    /\ UNCHANGED <<dedup_enabled, active_alerts, storage, stats, callbacks, rules,
                   lastOp, nextId, now, nFaults, nIngest, nMerged, run, pending>>

\* existing.merge_duplicate(alert): the write of duplicate_count, then last_seen
\* and metadata
CMergeWrite(t) ==
    LET object == threads.heap[Self(t).existing]
        merged == merge_duplicate([object EXCEPT !.duplicate_count = Self(t).count],
                                  threads.heap[Self(t).alert_id])
    IN /\ At(t, "merge_write")
       /\ threads' = [threads EXCEPT !.heap[Self(t).existing] = merged,
                                     !.th[t].pc = "update_bind"]
       /\ active_alerts' = Synced(merged)
       /\ UNCHANGED <<dedup_enabled, storage, stats, callbacks, rules,
                      lastOp, nextId, now, nFaults, nIngest, nMerged, run, pending>>

\* self.storage.update_alert(existing): the parameter tuple is built
CUpdateBind(t) ==
    /\ At(t, "update_bind")
    /\ threads' = [threads EXCEPT !.th[t].row = threads.heap[Self(t).existing],
                                  !.th[t].pc = "update_exec"]
    /\ UNCHANGED <<dedup_enabled, active_alerts, storage, stats, callbacks, rules,
                   lastOp, nextId, now, nFaults, nIngest, nMerged, run, pending>>

\* self.storage.update_alert(existing): the UPDATE runs and commits
CUpdateExec(t) ==
    /\ At(t, "update_exec")
    /\ storage' = update_alert(storage, Self(t).row, FALSE).db
    /\ threads' = [threads EXCEPT !.th[t].pc = "merged_read"]
    /\ UNCHANGED <<dedup_enabled, active_alerts, stats, callbacks, rules,
                   lastOp, nextId, now, nFaults, nIngest, nMerged, run, pending>>

\* self.stats.duplicates_merged += 1, the read
CMergedRead(t) ==
    /\ At(t, "merged_read")
    /\ threads' = [threads EXCEPT !.th[t].read_stats = stats,
                                  !.th[t].pc = "merged_write"]
    /\ UNCHANGED <<dedup_enabled, active_alerts, storage, stats, callbacks, rules,
                   lastOp, nextId, now, nFaults, nIngest, nMerged, run, pending>>

\* self.stats.duplicates_merged += 1, the write
CMergedWrite(t) ==
    /\ At(t, "merged_write")
    /\ stats' = [stats EXCEPT !.duplicates_merged = Self(t).read_stats.duplicates_merged + 1]
    /\ threads' = [threads EXCEPT !.th[t].pc = "return"]
    /\ UNCHANGED <<dedup_enabled, active_alerts, storage, callbacks, rules,
                   lastOp, nextId, now, nFaults, nIngest, nMerged, run, pending>>

\* self.active_alerts[alert.fingerprint] = alert
CInsert(t) ==
    LET alert == threads.heap[Self(t).alert_id]
    IN /\ At(t, "insert")
       /\ active_alerts' = DictSet(active_alerts, alert.fingerprint, alert)
       /\ threads' = [threads EXCEPT !.th[t].pc = "store_bind"]
       /\ UNCHANGED <<dedup_enabled, storage, stats, callbacks, rules,
                      lastOp, nextId, now, nFaults, nIngest, nMerged, run, pending>>

\* self.storage.store_alert(alert): the parameter tuple is built
CStoreBind(t) ==
    /\ At(t, "store_bind")
    /\ threads' = [threads EXCEPT !.th[t].row = threads.heap[Self(t).alert_id],
                                  !.th[t].pc = "store_exec"]
    /\ UNCHANGED <<dedup_enabled, active_alerts, storage, stats, callbacks, rules,
                   lastOp, nextId, now, nFaults, nIngest, nMerged, run, pending>>

\* self.storage.store_alert(alert): the INSERT runs and commits
CStoreExec(t) ==
    /\ At(t, "store_exec")
    /\ storage' = store_alert(storage, Self(t).row, FALSE).db
    /\ threads' = [threads EXCEPT !.th[t].pc = "stats_read"]
    /\ UNCHANGED <<dedup_enabled, active_alerts, stats, callbacks, rules,
                   lastOp, nextId, now, nFaults, nIngest, nMerged, run, pending>>

\* self.stats.update(alert): the counters are read
CStatsRead(t) ==
    /\ At(t, "stats_read")
    /\ threads' = [threads EXCEPT !.th[t].read_stats = stats,
                                  !.th[t].pc = "stats_write"]
    /\ UNCHANGED <<dedup_enabled, active_alerts, storage, stats, callbacks, rules,
                   lastOp, nextId, now, nFaults, nIngest, nMerged, run, pending>>

\* self.stats.update(alert): the counters are written
CStatsWrite(t) ==
    /\ At(t, "stats_write")
    /\ stats' = StatsUpdate(Self(t).read_stats, threads.heap[Self(t).alert_id])
    /\ threads' = [threads EXCEPT !.th[t].pc = "return"]
    /\ UNCHANGED <<dedup_enabled, active_alerts, storage, callbacks, rules,
                   lastOp, nextId, now, nFaults, nIngest, nMerged, run, pending>>

\* return existing / return alert (with no callback registered, routing and the
\* events change nothing)
CReturn(t) ==
    /\ At(t, "return")
    /\ threads' = [threads EXCEPT
          !.done = Append(@, [id |-> Self(t).alert_id,
                              ret |-> IF Self(t).existing # 0 THEN "existing"
                                      ELSE "candidate",
                              existing |-> Self(t).existing,
                              settled |-> Self(t).settled]),
          !.th[t] = IdleThread]
    /\ UNCHANGED <<dedup_enabled, active_alerts, storage, stats, callbacks, rules,
                   lastOp, nextId, now, nFaults, nIngest, nMerged, run, pending>>

NextConc ==
    \E t \in Threads :
        \/ CBegin(t)
        \/ CFind(t)
        \/ CMergeRead(t)
        \/ CMergeWrite(t)
        \/ CUpdateBind(t)
        \/ CUpdateExec(t)
        \/ CMergedRead(t)
        \/ CMergedWrite(t)
        \/ CInsert(t)
        \/ CStoreBind(t)
        \/ CStoreExec(t)
        \/ CStatsRead(t)
        \/ CStatsWrite(t)
        \/ CReturn(t)

SpecConc == InitConc /\ [][NextConc]_vars

-----------------------------------------------------------------------------
(* Properties of SpecConc *)

Quiescent == \A t \in Threads : At(t, "idle")

Done == threads.done

\* C5: two ingest calls of one fingerprint, within the window, made by two
\* threads on one aggregator: whatever the interleaving, exactly one alert is
\* stored as a new record and the other is merged into it.
C5_OneNewOneMerged ==
    (Quiescent /\ Len(Done) = 2) =>
        \E i, j \in 1..2 :
            /\ Done[i].ret = "candidate"
            /\ Done[j].ret = "existing"
            /\ Done[j].existing = Done[i].id
            /\ DOMAIN storage = {Done[i].id}

\* One call has stored an alert and returned, and since then k calls have each
\* found that alert as their duplicate, merged into it and returned.
MergedOnly(k) ==
    /\ Quiescent
    /\ Len(Done) = k + 1
    /\ Done[1].ret = "candidate"
    /\ \A c \in 2..Len(Done) :
          /\ Done[c].ret = "existing"
          /\ Done[c].existing = Done[1].id
          /\ Done[c].settled

\* C6: k ingest calls that each merge into the same active alert, concurrently:
\* once all have returned, that alert's duplicate_count, in memory and in its
\* row, has grown by exactly k, and so has stats.duplicates_merged.
C6_NoLostMerge ==
    \A k \in 1..MaxCalls :
        MergedOnly(k) =>
            /\ threads.heap[Done[1].id].duplicate_count = 1 + k
            /\ storage[Done[1].id].duplicate_count = 1 + k
            /\ stats.duplicates_merged = k

-----------------------------------------------------------------------------
(* More properties of Spec *)

\* The step is an ingest that merged its candidate and returned.
MergingIngest ==
    /\ lastOp'.op = "ingest"
    /\ lastOp'.outcome = "returned"
    /\ lastOp'.merged_into # 0

\* What the merge branch is to do with candidate `a` and the alert found at
\* position i of the active map.
MergePipeline(a, i) ==
    LET existing == active_alerts'[i].alert
    IN /\ existing.id = lastOp'.merged_into
       /\ existing.id = active_alerts[i].alert.id
       /\ existing.id \in DOMAIN storage'
       /\ row_to_alert(storage'[existing.id]) = existing
       /\ lastOp'.calls = CallsOf(Event("duplicate_merged", existing, {}, storage', stats'))
       /\ \A k \in 1..Len(lastOp'.calls) :
             /\ lastOp'.calls[k].event.persisted
             /\ lastOp'.calls[k].event.stored_count = existing.duplicate_count
       /\ lastOp'.ret = "existing"
       /\ lastOp'.ret_id = existing.id
       /\ lastOp'.ret_count = existing.duplicate_count
       /\ existing.id # a.id
       /\ DOMAIN storage' = DOMAIN storage
       /\ a.id \notin DOMAIN storage'
       /\ Len(active_alerts') = Len(active_alerts)
       /\ \A j \in 1..Len(active_alerts') : active_alerts'[j].alert.id # a.id

\* C11: every ingest that merges its candidate into an existing alert persists
\* the updated existing alert, then fires duplicate_merged exactly once, carrying
\* the existing alert, and neither alert_routed nor alert_ingested; it returns
\* the existing alert, and the candidate enters neither the active map nor storage.
C11_MergePipeline ==
    [][MergingIngest =>
          MergePipeline(lastOp'.alert,
                        find_duplicate(dedup_enabled, lastOp'.alert, active_alerts))]_vars

-----------------------------------------------------------------------------
(* SpecRouter: the AlertRouter of an aggregator: add_rule, clear_rules and     *)
(* route called one at a time, on alerts of every severity, with and without   *)
(* tags. lastOp holds the last call: for route, the alert, matches() of every  *)
(* rule and the list returned.                                                 *)

RouterSources == {"db", "web"}
RouterTags == {<<>>, <<"prod">>, <<"eu", "prod">>}

RouterAlerts ==
    {[NewAlert(1, source, severity, <<"d", "i", "s", "k", "1">>, <<"t", "o">>, 0)
         EXCEPT !.tags = tags] :
        source \in RouterSources, severity \in AlertSeverity, tags \in RouterTags}

\* The rules add_rule is given: overlapping channel lists, a channel listed
\* twice, a source filter, a tag filter
ExtraRules ==
    {[Rule("ab", <<"critical">>, <<"console", "file">>) EXCEPT !.tags = <<"prod", "qa">>],
     Rule("bc", <<"critical", "error">>, <<"file", "webhook">>),
     [Rule("web-mail", <<"error", "critical">>, <<"email", "email">>) EXCEPT !.sources = <<"web">>],
     [Rule("eu-mail", <<"debug">>, <<"email">>)
         EXCEPT !.tags = <<"eu">>, !.sources = <<"db">>]}

RouterOp(op, alert, matched, result) ==
    [op |-> op, alert |-> alert, matched |-> matched, result |-> result]

InitRouter ==
    /\ InitAggregator
    /\ threads = <<>>

\* AlertRouter.add_rule
RAddRule ==
    \E rule \in ExtraRules :
        /\ now < MaxAdds
        /\ rules' = Append(rules, rule)
        /\ lastOp' = RouterOp("add_rule", NoAlert, <<>>, <<>>)
        /\ now' = now + 1
        /\ UNCHANGED <<dedup_enabled, active_alerts, storage, stats, callbacks, nextId,
                       nFaults, nIngest, nMerged, run, pending, threads>>

\* AlertRouter.clear_rules
RClearRules ==
    /\ rules # <<>>
    /\ rules' = <<>>
    /\ lastOp' = RouterOp("clear_rules", NoAlert, <<>>, <<>>)
    /\ UNCHANGED <<dedup_enabled, active_alerts, storage, stats, callbacks, nextId, now,
                   nFaults, nIngest, nMerged, run, pending, threads>>

\* AlertRouter.route(alert), with what rule.matches(alert) gave for each rule
RRoute ==
    \E alert \in RouterAlerts :
        /\ lastOp' = RouterOp("route", alert,
                              [i \in 1..Len(rules) |-> RuleMatches(rules[i], alert)],
                              ListOf(route(rules, alert)))
        /\ UNCHANGED <<dedup_enabled, active_alerts, storage, stats, callbacks, rules,
                       nextId, now, nFaults, nIngest, nMerged, run, pending, threads>>

NextRouter ==
    \/ RAddRule
    \/ RClearRules
    \/ RRoute

SpecRouter == InitRouter /\ [][NextRouter]_vars

(* Properties of SpecRouter *)

\* A rule matches an alert, as the routing contract words it
MatchesAsSpecified(rule, alert) ==
    /\ alert.severity \in Range(rule.severity_levels)
    /\ (rule.sources = <<>> \/ alert.source \in Range(rule.sources))
    /\ (rule.tags = <<>> \/ \E tag \in Range(rule.tags) : tag \in Range(alert.tags))

\* The union of the channel lists of the rules of rs that match the alert
MatchingChannels(rs, alert) ==
    UNION {Range(rs[i].channels) : i \in {j \in 1..Len(rs) : MatchesAsSpecified(rs[j], alert)}}

\* The rule list with the rules at positions i and j exchanged
Swapped(rs, i, j) ==
    [k \in 1..Len(rs) |-> IF k = i THEN rs[j] ELSE IF k = j THEN rs[i] ELSE rs[k]]

RouteReturnsUnion ==
    lastOp.op = "route" =>
        /\ Range(lastOp.result) = MatchingChannels(rules, lastOp.alert)
        /\ Len(lastOp.result) = Cardinality(Range(lastOp.result))
        /\ \A i, j \in 1..Len(rules) :
              route(Swapped(rules, i, j), lastOp.alert) = Range(lastOp.result)

AddRuleRemovesNothing ==
    lastOp'.op = "add_rule" =>
        \A alert \in RouterAlerts : route(rules, alert) \subseteq route(rules', alert)

\* C12: route(alert) returns exactly the union of the channel lists of the rules
\* that match the alert, no channel twice, whatever the order of the rules; and
\* adding a rule removes no channel from the result for any alert.
C12_RouteIsUnion ==
    /\ []RouteReturnsUnion
    /\ [][AddRuleRemovesNothing]_vars

C12_Witness ==
    /\ lastOp.op = "route"
    /\ Len(rules) = 2
    /\ rules[1].channels = <<"console", "file">>
    /\ rules[2].channels = <<"file", "webhook">>
    /\ lastOp.matched = <<TRUE, TRUE>>
    /\ Range(lastOp.result) = {"console", "file", "webhook"}
    /\ Len(lastOp.result) = 3

\* The channels the default rules give each severity
DefaultChannels(severity) ==
    CASE severity = "critical" -> {"console", "file", "webhook", "email"}
      [] severity = "error" -> {"console", "file", "webhook"}
      [] severity = "warning" -> {"console", "file"}
      [] severity = "info" -> {"console"}
      [] severity = "debug" -> {"file"}

\* The events an observer registered on a new aggregator with these rules is
\* handed when the alert is ingested
FreshIngestCalls(alert) ==
    Ingest(TRUE, <<>>, <<>>, InitStats, <<"ok">>, rules, alert, FALSE).calls

\* C13: with only the default rules, route(alert) returns {console, file,
\* webhook, email} for critical, {console, file, webhook} for error, {console,
\* file} for warning, {console} for info and {file} for debug, for every source
\* and tag list; an alert ingested into a new aggregator is routed to them.
C13_DefaultRouting ==
    (lastOp.op = "route" /\ rules = DefaultRules) =>
        /\ Range(lastOp.result) = DefaultChannels(lastOp.alert.severity)
        /\ Len(lastOp.result) = Cardinality(DefaultChannels(lastOp.alert.severity))
        /\ FreshIngestCalls(lastOp.alert)[1].event.type = "alert_routed"
        /\ FreshIngestCalls(lastOp.alert)[1].event.channels
              = DefaultChannels(lastOp.alert.severity)

C13_Witness ==
    /\ lastOp.op = "route"
    /\ rules = DefaultRules
    /\ lastOp.alert.severity = "error"
    /\ lastOp.alert.source = "web"
    /\ lastOp.alert.tags # <<>>
    /\ Range(lastOp.result) = {"console", "file", "webhook"}
    /\ FreshIngestCalls(lastOp.alert)[1].event.channels = {"console", "file", "webhook"}

\* C14: RoutingRule.matches(alert) is true exactly when the alert's severity is
\* in the rule's severity list, and the rule's source list is empty or holds the
\* alert's source, and the rule's tag list is empty or holds at least one of the
\* alert's tags.
C14_MatchesIff ==
    lastOp.op = "route" =>
        \A i \in 1..Len(rules) :
            lastOp.matched[i] <=> MatchesAsSpecified(rules[i], lastOp.alert)

C14_Witness ==
    /\ lastOp.op = "route"
    /\ \E i \in 1..Len(rules) :
          /\ rules[i].tags = <<"prod", "qa">>
          /\ lastOp.alert.tags = <<"prod">>
          /\ lastOp.matched[i]
    /\ \E i \in 1..Len(rules) :
          /\ rules[i].sources = <<"web">>
          /\ lastOp.alert.severity \in Range(rules[i].severity_levels)
          /\ lastOp.alert.source = "db"
          /\ ~lastOp.matched[i]

-----------------------------------------------------------------------------
(* SpecFuzzy: ingest calls on one aggregator, each in two steps: find_duplicate *)
(* returns, then the rest of ingest runs. The alerts differ in source,          *)
(* severity, title and timestamp, so that the fuzzy path has several alerts to  *)
(* choose from. No callback is registered and the database fails no write.      *)

FuzzyKinds == {<<"db", "error">>, <<"db", "info">>, <<"web", "error">>}
FuzzyTimes == {0, time_window, 2 * time_window}

FuzzyOp(op, given, call) ==
    [op |-> op, given |-> given, alert |-> call.alert, found |-> call.ret]

InitFuzzy ==
    /\ InitAggregator
    /\ threads = <<>>

\* ingest(alert) up to the return of self.deduplicator.find_duplicate
FFind ==
    \E kind \in FuzzyKinds, title \in FuzzyTitles, timestamp \in FuzzyTimes :
        LET alert == NewAlert(nextId, kind[1], kind[2], title, <<"t", "o">>, timestamp)
            call == FindDuplicateCall(dedup_enabled, alert, active_alerts)
        IN /\ lastOp.op # "find"
           /\ now < MaxFinds
           /\ active_alerts' = call.active
           /\ lastOp' = FuzzyOp("find", alert, call)
           /\ nextId' = nextId + 1
           /\ UNCHANGED <<dedup_enabled, storage, stats, callbacks, rules, now, nFaults,
                          nIngest, nMerged, run, pending, threads>>

\* the rest of ingest(alert): the merge branch or the new-alert branch
FApply ==
    LET r == IF lastOp.found # 0
             THEN IngestMerge(active_alerts, storage, stats, callbacks, lastOp.alert,
                              lastOp.found, FALSE)
             ELSE IngestNew(active_alerts, storage, stats, callbacks, rules, lastOp.alert,
                            FALSE)
    IN /\ lastOp.op = "find"
       /\ Install(r, FALSE)
       /\ lastOp' = [lastOp EXCEPT !.op = "ingest"]
       /\ now' = now + 1
       /\ UNCHANGED <<dedup_enabled, callbacks, rules, nextId, nIngest, nMerged, run,
                      pending, threads>>

NextFuzzy ==
    \/ FFind
    \/ FApply

SpecFuzzy == InitFuzzy /\ [][NextFuzzy]_vars

(* Properties of SpecFuzzy *)

\* The active alert under the candidate's fingerprint, within the window of it
ExactMatch(a) ==
    /\ KeyIndex(active_alerts, a.fingerprint) # 0
    /\ within_time_window(a, active_alerts[KeyIndex(active_alerts, a.fingerprint)].alert)

\* The active alerts the fuzzy path may return for candidate a
Eligible(a) ==
    {i \in 1..Len(active_alerts) :
        /\ active_alerts[i].alert.source = a.source
        /\ active_alerts[i].alert.severity = a.severity
        /\ Abs(active_alerts[i].alert.timestamp - a.timestamp) <= time_window}

Score(a, i) == Similarity(a, active_alerts[i].alert)

AtThreshold(a, i) == FracGE(Score(a, i), <<fuzzy_threshold_pct, 1>>)

\* C15: when the exact-fingerprint path yields no match, find_duplicate returns
\* the alert of highest similarity among the active alerts of the candidate's
\* source and severity within the time window, if that similarity is at least
\* the threshold, and None otherwise.
C15_FuzzyReturnsBest ==
    (lastOp.op = "find" /\ dedup_enabled /\ ~ExactMatch(lastOp.alert)) =>
        LET a == lastOp.alert
        IN IF \E i \in Eligible(a) : AtThreshold(a, i)
           THEN /\ lastOp.found \in Eligible(a)
                /\ AtThreshold(a, lastOp.found)
                /\ \A j \in Eligible(a) : FracGE(Score(a, lastOp.found), Score(a, j))
           ELSE lastOp.found = 0

C15_Witness ==
    /\ lastOp.op = "find"
    /\ ~ExactMatch(lastOp.alert)
    /\ lastOp.found = 2
    /\ 1 \in Eligible(lastOp.alert)
    /\ AtThreshold(lastOp.alert, 1)
    /\ FracGT(Score(lastOp.alert, 2), Score(lastOp.alert, 1))

\* The step in which find_duplicate runs changes neither the candidate nor the
\* active map nor anything else of the aggregator.
FindChangesNothing ==
    lastOp'.op = "find" =>
        /\ active_alerts' = active_alerts
        /\ lastOp'.alert = lastOp'.given
        /\ storage' = storage
        /\ stats' = stats

\* The merge is made by the rest of ingest, on the alert find_duplicate returned.
MergeIsIngests ==
    (active_alerts' # active_alerts \/ storage' # storage \/ stats' # stats) =>
        /\ lastOp.op = "find"
        /\ lastOp'.op = "ingest"
        /\ lastOp.found # 0 =>
              active_alerts' = [active_alerts EXCEPT ![lastOp.found].alert =
                                   merge_duplicate(@, lastOp.alert)]

\* C16: find_duplicate has no side effect: it leaves the key set of the map, the
\* candidate and every active alert as they were; the merge's changes are made
\* by ingest after find_duplicate has returned.
C16_FindIsPure ==
    [][FindChangesNothing /\ MergeIsIngests]_vars

C16_Witness ==
    /\ lastOp.op = "find"
    /\ lastOp.found # 0
    /\ lastOp.alert.fingerprint # active_alerts[lastOp.found].alert.fingerprint
    /\ active_alerts[lastOp.found].alert.duplicate_count = 1
    /\ active_alerts[lastOp.found].alert.last_seen < lastOp.alert.timestamp

-----------------------------------------------------------------------------
(* Properties of SpecNoDedup *)

\* The alerts ingest may be given next
Candidates ==
    {NewAlert(nextId, source, severity, title, message, timestamp) :
        source \in Sources, severity \in IngestSeverities, title \in Titles,
        message \in Messages, timestamp \in Times}

NothingMerged ==
    ~dedup_enabled =>
        /\ \A a \in Candidates : find_duplicate(dedup_enabled, a, active_alerts) = 0
        /\ nMerged = 0
        /\ stats.duplicates_merged = 0
        /\ \A i \in DOMAIN storage : storage[i].duplicate_count = 1
        /\ \A i \in 1..Len(active_alerts) : active_alerts[i].alert.duplicate_count = 1
        /\ \A k \in 1..Len(lastOp.calls) : lastOp.calls[k].event.type # "duplicate_merged"

EveryIngestStoresNew ==
    (~dedup_enabled /\ lastOp'.op = "ingest" /\ lastOp'.outcome = "returned") =>
        /\ StoredAsNew
        /\ lastOp'.merged_into = 0
        /\ Cardinality(DOMAIN storage') = Cardinality(DOMAIN storage) + 1

\* C17: with deduplication disabled, find_duplicate returns None for every
\* candidate and active map and every ingest stores its candidate as a new
\* record: no alert is merged, every duplicate_count stays 1,
\* stats.duplicates_merged stays 0 and no duplicate_merged event is fired.
C17_DisabledNeverMerges ==
    /\ []NothingMerged
    /\ [][EveryIngestStoresNew]_vars

C17_Witness ==
    /\ ~dedup_enabled
    /\ lastOp.op = "ingest"
    /\ lastOp.outcome = "returned"
    /\ callbacks # <<>>
    /\ Cardinality(StoredWith(lastOp.alert.fingerprint)) = 3
    /\ \A i \in StoredWith(lastOp.alert.fingerprint) :
          /\ storage[i].timestamp = lastOp.alert.timestamp
          /\ storage[i].status = "new"

-----------------------------------------------------------------------------
(* Properties of Spec: the times of a merged alert *)

\* The step is an ingest that merged its candidate into the alert at position i
\* of the active map (also when the row's update then failed).
MergedAt(i) ==
    /\ lastOp'.op = "ingest"
    /\ lastOp'.merged_into # 0
    /\ i = find_duplicate(dedup_enabled, lastOp'.alert, active_alerts)

LastSeenIsLater ==
    \A i \in 1..Len(active_alerts) :
        MergedAt(i) =>
            /\ active_alerts'[i].alert.id = active_alerts[i].alert.id
            /\ active_alerts'[i].alert.last_seen =
                  Max(active_alerts[i].alert.last_seen, lastOp'.alert.timestamp)
            /\ active_alerts'[i].alert.first_seen = active_alerts[i].alert.first_seen
            /\ lastOp'.outcome = "returned" /\ active_alerts[i].alert.id \in DOMAIN storage =>
                  /\ storage'[active_alerts[i].alert.id].last_seen =
                        active_alerts'[i].alert.last_seen
                  /\ storage'[active_alerts[i].alert.id].first_seen =
                        active_alerts[i].alert.first_seen

\* Over the ingests no active alert's last_seen decreases or first_seen changes.
TimesKeptByIngest ==
    lastOp'.op = "ingest" =>
        \A i \in 1..Len(active_alerts), j \in 1..Len(active_alerts') :
            active_alerts[i].alert.id = active_alerts'[j].alert.id =>
                /\ active_alerts'[j].alert.last_seen >= active_alerts[i].alert.last_seen
                /\ active_alerts'[j].alert.first_seen = active_alerts[i].alert.first_seen
                /\ active_alerts'[j].alert.first_seen = active_alerts'[j].alert.timestamp

\* C18: when a candidate is merged into an existing alert, the existing alert's
\* last_seen becomes the later of its previous last_seen and the candidate's
\* timestamp; so over the merges, also of candidates with earlier timestamps,
\* last_seen never decreases and first_seen never changes.
C18_LastSeenMonotone ==
    [][LastSeenIsLater /\ TimesKeptByIngest]_vars

C18_Witness ==
    /\ lastOp.op = "ingest"
    /\ lastOp.outcome = "returned"
    /\ lastOp.merged_into # 0
    /\ \E i \in 1..Len(active_alerts) :
          /\ active_alerts[i].alert.id = lastOp.merged_into
          /\ active_alerts[i].alert.duplicate_count = 3
          /\ lastOp.alert.timestamp < active_alerts[i].alert.last_seen
          /\ active_alerts[i].alert.first_seen < active_alerts[i].alert.last_seen
          /\ storage[lastOp.merged_into].last_seen = active_alerts[i].alert.last_seen

-----------------------------------------------------------------------------
(* SpecMerge: one aggregator, ingests of alerts of one fingerprint that carry  *)
(* metadata, and acknowledge / resolve calls (acknowledge puts the Alert built *)
(* from the row in the active map).                                            *)

\* Alert.metadata of the ingested alerts: dicts of string keys and values
MergeMetadata ==
    {<<>>,
     [k \in {"host"} |-> "h1"],
     [k \in {"host"} |-> "h2"],
     [k \in {"env", "host"} |-> IF k = "env" THEN "prod" ELSE "h3"]}

MergeTimes == {0, time_window}

\* ingest(alert) by the one caller, for any Alert it has built
IngestStep(alert, fail) ==
    LET r == Ingest(dedup_enabled, active_alerts, storage, stats, callbacks, rules,
                    alert, fail)
        resolved_ids == {p.id : p \in {q \in pending : q.fp = alert.fingerprint}}
    IN /\ now < MaxOps
       /\ Install(r, fail)
       /\ lastOp' = OpRecord("ingest", alert, 0, fail, r, resolved_ids)
       /\ nextId' = nextId + 1
       /\ now' = now + 1
       /\ nIngest' = IF r.outcome = "returned" THEN nIngest + 1 ELSE nIngest
       /\ nMerged' = IF r.outcome = "returned" /\ r.ret = "existing"
                     THEN nMerged + 1 ELSE nMerged
       /\ run' = RunAfterIngest(run, active_alerts, storage, alert, r.outcome)
       /\ pending' = {q \in pending : q.fp # alert.fingerprint}
       /\ UNCHANGED <<dedup_enabled, callbacks, rules, threads>>

MIngest ==
    \E metadata \in MergeMetadata, timestamp \in MergeTimes, fail \in Fails :
        IngestStep([NewAlert(nextId, "db", "error", <<"d", "i", "s", "k", "1">>,
                             <<"t", "o">>, timestamp)
                       EXCEPT !.metadata = metadata],
                   fail)

NextMerge ==
    \/ MIngest
    \/ DoAcknowledge
    \/ DoResolve

SpecMerge == Init /\ [][NextMerge]_vars

-----------------------------------------------------------------------------
(* Properties of SpecMerge *)

\* The metadata `after` a merge of a candidate's `given` into `before`
MetadataUnion(before, given, after) ==
    /\ DOMAIN after = (DOMAIN before) \cup (DOMAIN given)
    /\ \A k \in DOMAIN before : after[k] = before[k]
    /\ \A k \in (DOMAIN given) \ (DOMAIN before) : after[k] = given[k]

MergedMetadata ==
    \A i \in 1..Len(active_alerts) :
        (/\ MergedAt(i)
         /\ lastOp'.outcome = "returned"
         /\ active_alerts[i].alert.id \in DOMAIN storage) =>
            /\ MetadataUnion(active_alerts[i].alert.metadata, lastOp'.alert.metadata,
                             active_alerts'[i].alert.metadata)
            /\ get_alert(storage', active_alerts[i].alert.id).metadata =
                  active_alerts'[i].alert.metadata

\* C19: when a candidate is merged into an existing alert, every metadata key of
\* the candidate that the existing alert lacks is added with the candidate's
\* value, every key the existing alert has keeps its value, and the row read
\* back from storage afterwards holds the resulting metadata.
C19_MetadataUnion ==
    [][MergedMetadata]_vars

C19_Witness ==
    /\ lastOp.op = "ingest"
    /\ lastOp.outcome = "returned"
    /\ lastOp.merged_into \in DOMAIN storage
    /\ DOMAIN lastOp.alert.metadata = {"env", "host"}
    /\ \E i \in 1..Len(active_alerts) :
          /\ active_alerts[i].alert.id = lastOp.merged_into
          /\ DOMAIN active_alerts[i].alert.metadata = {"env", "host"}
          /\ active_alerts[i].alert.metadata["host"] = "h1"
          /\ active_alerts[i].alert.metadata["env"] = "prod"
          /\ get_alert(storage, lastOp.merged_into).metadata =
                active_alerts[i].alert.metadata

-----------------------------------------------------------------------------
(* SpecLifecycle: one aggregator whose caller ingests alerts built with any    *)
(* status and acknowledges and resolves them, with callbacks registered.       *)

\* The Alert that acknowledge / resolve get from storage.get_alert(alert_id)
Found(alert_id) ==
    IF alert_id \in DOMAIN storage THEN get_alert(storage, alert_id) ELSE NoAlert

\* ingest of an Alert built with status = status
LIngest ==
    \E status \in AlertStatus, title \in Titles, fail \in Fails :
        IngestStep([NewAlert(nextId, "db", "error", title, <<"t", "o">>, 0)
                       EXCEPT !.status = status],
                   fail)

LAcknowledge ==
    \E alert_id \in (DOMAIN storage) \cup {nextId}, by \in Users, fail \in Fails :
        LET r == Acknowledge(active_alerts, storage, stats, callbacks, alert_id, by, now, fail)
        IN /\ now < MaxOps
           /\ Install(r, fail /\ alert_id \in DOMAIN storage)
           /\ lastOp' = OpRecord("acknowledge", Found(alert_id), alert_id, fail, r, {})
           /\ now' = now + 1
           /\ run' = NoRun
           /\ UNCHANGED <<dedup_enabled, callbacks, rules, nextId, nIngest, nMerged,
                          pending, threads>>

LResolve ==
    \E alert_id \in (DOMAIN storage) \cup {nextId}, fail \in Fails :
        LET r == Resolve(active_alerts, storage, stats, callbacks, alert_id, now, fail)
        IN /\ now < MaxOps
           /\ Install(r, fail /\ alert_id \in DOMAIN storage)
           /\ lastOp' = OpRecord("resolve", Found(alert_id), alert_id, fail, r, {})
           /\ now' = now + 1
           /\ run' = NoRun
           /\ pending' = IF r.outcome = "returned" /\ r.ret = "True"
                         THEN pending \cup {[fp |-> storage[alert_id].fingerprint,
                                             id |-> alert_id]}
                         ELSE pending
           /\ UNCHANGED <<dedup_enabled, callbacks, rules, nextId, nIngest, nMerged, threads>>

NextLifecycle ==
    \/ LIngest
    \/ LAcknowledge
    \/ LResolve
    \/ AddCallback

SpecLifecycle == Init /\ [][NextLifecycle]_vars

-----------------------------------------------------------------------------
(* Properties of SpecLifecycle *)

\* The step is a call of op on a stored id whose UPDATE the database does not fail.
LifecycleCall(op) ==
    /\ lastOp'.op = op
    /\ lastOp'.id \in DOMAIN storage
    /\ ~lastOp'.fail

\* The call returned True, and every registered callback was called once, in
\* order, with an event of event_type for that alert, the row then holding status.
Succeeded(event_type, status) ==
    /\ lastOp'.outcome = "returned"
    /\ lastOp'.ret = "True"
    /\ storage'[lastOp'.id].status = status
    /\ Len(lastOp'.calls) = Len(callbacks)
    /\ \A k \in 1..Len(lastOp'.calls) :
          /\ lastOp'.calls[k].cb = k
          /\ lastOp'.calls[k].event.type = event_type
          /\ lastOp'.calls[k].event.alert_id = lastOp'.id
          /\ lastOp'.calls[k].event.status = status
          /\ lastOp'.calls[k].event.stored_status = status

AcknowledgeSucceeds ==
    LifecycleCall("acknowledge") =>
        /\ storage[lastOp'.id].status \in AlertStatus
        /\ Succeeded("alert_acknowledged", "acknowledged")
        /\ storage'[lastOp'.id].acknowledged_at = now
        /\ storage'[lastOp'.id].acknowledged_by \in Users

ResolveSucceeds ==
    LifecycleCall("resolve") =>
        /\ storage[lastOp'.id].status \in AlertStatus
        /\ Succeeded("alert_resolved", "resolved")
        /\ storage'[lastOp'.id].resolved_at = now

\* C20: acknowledge(id) and resolve(id) on a stored id succeed whatever the
\* row's status (new, acknowledged, in_progress, resolved, dismissed): the call
\* returns True, the row's status becomes acknowledged (resolved) with
\* acknowledged_at (resolved_at) set to the time of the call, and each callback
\* gets alert_acknowledged (alert_resolved) once, after the row was updated.
C20_NoTransitionRejected ==
    [][AcknowledgeSucceeds /\ ResolveSucceeds]_vars

C20_Witness ==
    /\ lastOp.op = "acknowledge"
    /\ lastOp.alert.status = "resolved"
    /\ lastOp.alert.resolved_at # NoTime
    /\ lastOp.ret = "True"
    /\ storage[lastOp.id].status = "acknowledged"
    /\ storage[lastOp.id].acknowledged_at = now - 1
    /\ Len(lastOp.calls) = 1
    /\ lastOp.calls[1].event.type = "alert_acknowledged"
    /\ lastOp.calls[1].event.stored_status = "acknowledged"

-----------------------------------------------------------------------------
(* Properties of SpecLifecycle: the statuses of the active alerts *)

-----------------------------------------------------------------------------
(* SpecStorage: AlertStorage called directly. Here `storage` is the alerts     *)
(* table as SQLite keeps it, the list of its rows in rowid order, and the      *)
(* datetime columns hold the isoformat() text of the values. `now` is the      *)
(* clock, in days.                                                             *)

\* A datetime: <<instant, utcoffset>>. An aware datetime has an offset >= 0
\* (hours east, instants in hours); datetime.now() is naive: offset NoTz, its
\* instant read in local time. <<>> is None.
NoTz == -1
NoDate == <<>>
DateTime(instant, tz) == <<instant, tz>>
Instant(dt) == dt[1]

\* datetime.isoformat(): the wall-clock time followed by the offset suffix
\* (none for a naive value), fixed-width fields
isoformat(dt) == <<dt[1] + Max(dt[2], 0), dt[2]>>

\* datetime.fromisoformat()
fromisoformat(text) == DateTime(text[1] - Max(text[2], 0), text[2])

\* SQLite's comparison of two TEXT values: character by character, so by
\* wall-clock time first and by suffix next
TextLess(a, b) == a[1] < b[1] \/ (a[1] = b[1] /\ a[2] < b[2])

\* An Optional[datetime] as bound to the statement: its text, or NULL
IsoOrNull(dt) == IF dt = NoDate THEN NoDate ELSE isoformat(dt)

\* The parameter tuple of the INSERT
ToRow(alert) ==
    [alert EXCEPT !.timestamp = isoformat(alert.timestamp),
                  !.metadata = json_dumps(alert.metadata),
                  !.first_seen = IsoOrNull(alert.first_seen),
                  !.last_seen = IsoOrNull(alert.last_seen),
                  !.acknowledged_at = IsoOrNull(alert.acknowledged_at),
                  !.resolved_at = IsoOrNull(alert.resolved_at)]

\* AlertStorage._row_to_alert on a row of the table
FromRow(row) ==
    [row EXCEPT !.timestamp = fromisoformat(row.timestamp),
                !.metadata = IF row.metadata # <<>> THEN json_loads(row.metadata) ELSE <<>>,
                !.first_seen = IF row.first_seen # NoDate
                               THEN fromisoformat(row.first_seen) ELSE NoDate,
                !.last_seen = IF row.last_seen # NoDate
                              THEN fromisoformat(row.last_seen) ELSE NoDate,
                !.acknowledged_at = IF row.acknowledged_at # NoDate
                                    THEN fromisoformat(row.acknowledged_at) ELSE NoDate,
                !.resolved_at = IF row.resolved_at # NoDate
                                THEN fromisoformat(row.resolved_at) ELSE NoDate]

\* The positions of the rows WHERE id = alert_id
RowsOf(table, alert_id) == {i \in 1..Len(table) : table[i].id = alert_id}

\* Fault: an INSERT into a table whose id column is no PRIMARY KEY
InsertAlert_NoPrimaryKey(table, alert) ==
    [ok |-> TRUE, table |-> Append(table, ToRow(alert))]

\* AlertStorage.store_alert on the table: INSERT; id TEXT PRIMARY KEY makes the
\* statement fail (sqlite3.IntegrityError) when a row has the id
InsertAlert(table, alert) ==
    IF RowsOf(table, alert.id) # {}
    THEN [ok |-> FALSE, table |-> table]
    ELSE [ok |-> TRUE, table |-> Append(table, ToRow(alert))]

\* AlertStorage.update_alert on the table
UpdateAlert(table, alert) ==
    [i \in 1..Len(table) |->
        IF table[i].id = alert.id
        THEN [table[i] EXCEPT
                 !.status = alert.status,
                 !.duplicate_count = alert.duplicate_count,
                 !.last_seen = IsoOrNull(alert.last_seen),
                 !.acknowledged_at = IsoOrNull(alert.acknowledged_at),
                 !.resolved_at = IsoOrNull(alert.resolved_at),
                 !.acknowledged_by = alert.acknowledged_by,
                 !.metadata = json_dumps(alert.metadata)]
        ELSE table[i]]

\* The rows of table at the positions not in gone, in order
RECURSIVE Remaining(_, _, _)
Remaining(table, gone, i) ==
    IF i > Len(table) THEN <<>>
    ELSE IF i \in gone THEN Remaining(table, gone, i + 1)
    ELSE <<table[i]>> \o Remaining(table, gone, i + 1)

\* Fault: a cleanup_old whose DELETE has no status condition
cleanup_old_AnyStatus(table, days, today) ==
    LET cutoff == isoformat(DateTime(today - days, NoTz))
        gone == {i \in 1..Len(table) :
                    /\ table[i].resolved_at # NoDate
                    /\ TextLess(table[i].resolved_at, cutoff)}
    IN [rowcount |-> Cardinality(gone), table |-> Remaining(table, gone, 1)]

\* AlertStorage.cleanup_old: DELETE ... WHERE status = 'resolved' AND
\* resolved_at < cutoff (a NULL resolved_at compares as unknown); returns rowcount
cleanup_old(table, days, today) ==
    LET cutoff == isoformat(DateTime(today - days, NoTz))
        gone == {i \in 1..Len(table) :
                    /\ table[i].status = "resolved"
                    /\ table[i].resolved_at # NoDate
                    /\ TextLess(table[i].resolved_at, cutoff)}
    IN [rowcount |-> Cardinality(gone), table |-> Remaining(table, gone, 1)]

\* The WHERE clause query_alerts builds: a filter that is None adds no condition
Selected(row, severity, status, source) ==
    /\ severity # None => row.severity = severity
    /\ status # None => row.status = status
    /\ source # None => row.source = source

\* AlertStorage.query_alerts: SELECT ... ORDER BY timestamp DESC LIMIT ?, the
\* lists of row positions it can return (rows of equal timestamp text come in
\* an order SQLite chooses)
query_alerts(table, severity, status, source, limit) ==
    LET hits == {i \in 1..Len(table) : Selected(table[i], severity, status, source)}
        n == Min(limit, Cardinality(hits))
    IN {list \in [1..n -> hits] :
           /\ \A i, j \in 1..n : i < j =>
                 /\ list[i] # list[j]
                 /\ ~TextLess(table[list[i]].timestamp, table[list[j]].timestamp)
           /\ \A h \in hits \ Range(list) : \A i \in 1..n :
                 ~TextLess(table[list[i]].timestamp, table[h].timestamp)}

StorageKinds == {<<"db", "error">>, <<"db", "info">>, <<"web", "error">>}
StorageTimestamps == {DateTime(0, 2), DateTime(1, 0)}
StorageStatuses == {"new", "resolved"}
Retentions == {0, 1, 2}
Limits == {0, 1, 2}

StorageOp(op, arg, ok, ret) == [op |-> op, arg |-> arg, ok |-> ok, ret |-> ret]

\* AlertStorage.__init__ on a new database file: the table is empty
InitStorage ==
    /\ storage = <<>>
    /\ lastOp = StorageOp("init", <<>>, TRUE, <<>>)
    /\ now = 0
    /\ dedup_enabled = TRUE
    /\ active_alerts = <<>>
    /\ stats = InitStats
    /\ callbacks = <<>>
    /\ rules = DefaultRules
    /\ nextId = 1
    /\ nFaults = 0
    /\ nIngest = 0
    /\ nMerged = 0
    /\ run = NoRun
    /\ pending = {}
    /\ threads = <<>>

StorageStep(table, op) ==
    /\ now < MaxStorageOps
    /\ storage' = table
    /\ lastOp' = op
    /\ now' = now + 1
    /\ UNCHANGED <<dedup_enabled, active_alerts, stats, callbacks, rules, nextId,
                   nFaults, nIngest, nMerged, run, pending, threads>>

\* store_alert(alert) of an Alert built by the caller
SStore ==
    \E id \in 1..MaxRowIds, kind \in StorageKinds, status \in StorageStatuses,
       timestamp \in StorageTimestamps :
        LET built == NewAlert(id, kind[1], kind[2], <<"d", "i", "s", "k", "1">>,
                              <<"t", "o">>, timestamp)
            alert == [built EXCEPT !.status = status, !.acknowledged_at = NoDate,
                                   !.resolved_at = NoDate]
            r == InsertAlert(storage, alert)
        IN StorageStep(r.table, StorageOp("store", alert, r.ok, <<>>))

\* alert = get_alert(id); alert.acknowledge(by); update_alert(alert)
SAcknowledge ==
    \E i \in 1..Len(storage), by \in Users :
        LET alert == [FromRow(storage[i]) EXCEPT !.status = "acknowledged",
                                                 !.acknowledged_at = DateTime(now, NoTz),
                                                 !.acknowledged_by = by]
        IN StorageStep(UpdateAlert(storage, alert), StorageOp("update", alert, TRUE, <<>>))

\* alert = get_alert(id); alert.resolve(); update_alert(alert)
SResolve ==
    \E i \in 1..Len(storage) :
        LET alert == [FromRow(storage[i]) EXCEPT !.status = "resolved",
                                                 !.resolved_at = DateTime(now, NoTz)]
        IN StorageStep(UpdateAlert(storage, alert), StorageOp("update", alert, TRUE, <<>>))

\* cleanup_old(days)
SCleanup ==
    \E days \in Retentions :
        LET r == cleanup_old(storage, days, now)
        IN StorageStep(r.table, StorageOp("cleanup", days, TRUE, r.rowcount))

\* query_alerts(severity, status, source, limit)
SQuery ==
    \E severity \in {None, "error"}, status \in {None, "new"}, source \in {None, "db"},
       limit \in Limits :
        \E list \in query_alerts(storage, severity, status, source, limit) :
            StorageStep(storage,
                        StorageOp("query",
                                  [severity |-> severity, status |-> status,
                                   source |-> source, limit |-> limit],
                                  TRUE,
                                  [k \in 1..Len(list) |-> FromRow(storage[list[k]])]))

NextStorage ==
    \/ SStore
    \/ SAcknowledge
    \/ SResolve
    \/ SCleanup
    \/ SQuery

SpecStorage == InitStorage /\ [][NextStorage]_vars

-----------------------------------------------------------------------------
(* Properties of SpecStorage *)

\* A store_alert of an id the table has fails and leaves the table as it was.
DuplicateRefused ==
    (lastOp'.op = "store" /\ RowsOf(storage, lastOp'.arg.id) # {}) =>
        /\ ~lastOp'.ok
        /\ storage' = storage

UniqueIds ==
    \A i, j \in 1..Len(storage) : storage[i].id = storage[j].id => i = j

\* C22: store_alert of an alert whose id is already stored fails with an error
\* and leaves the existing row unchanged; the table never holds two rows of
\* one id.
C22_PrimaryKey ==
    []UniqueIds /\ [][DuplicateRefused]_vars

C22_Witness ==
    /\ lastOp.op = "store"
    /\ ~lastOp.ok
    /\ \E i \in 1..Len(storage) :
          /\ storage[i].id = lastOp.arg.id
          /\ storage[i].timestamp # isoformat(lastOp.arg.timestamp)
          /\ storage[i].source # lastOp.arg.source

\* The rows a cleanup at clock `today` with retention `days` has to delete:
\* resolved, and resolved before today - days
OldResolved(table, days, today) ==
    {i \in 1..Len(table) :
        /\ table[i].status = "resolved"
        /\ table[i].resolved_at # NoDate
        /\ Instant(fromisoformat(table[i].resolved_at)) < today - days}

CleanupExact ==
    lastOp'.op = "cleanup" =>
        /\ storage' = Remaining(storage, OldResolved(storage, lastOp'.arg, now), 1)
        /\ lastOp'.ret = Cardinality(OldResolved(storage, lastOp'.arg, now))
        /\ Len(storage') = Len(storage) - lastOp'.ret

\* C24: cleanup_old(retention_days) deletes exactly the rows whose status is
\* resolved and whose resolved_at is older than now - retention_days, and
\* returns their number; a row of another status, or resolved not before the
\* cutoff, is never deleted.
C24_CleanupExact ==
    [][CleanupExact]_vars

C24_Witness ==
    /\ lastOp.op = "cleanup"
    /\ lastOp.ret = 1
    /\ Len(storage) = 1
    /\ storage[1].status = "resolved"

\* What query_alerts returned, against the table it read
QueryFiltered ==
    \A k \in 1..Len(lastOp.ret) :
        /\ \E i \in 1..Len(storage) : FromRow(storage[i]) = lastOp.ret[k]
        /\ Selected(lastOp.ret[k], lastOp.arg.severity, lastOp.arg.status,
                    lastOp.arg.source)

QueryLimited == Len(lastOp.ret) <= lastOp.arg.limit

QueryNewestFirst ==
    \A i, j \in 1..Len(lastOp.ret) :
        i < j => Instant(lastOp.ret[i].timestamp) >= Instant(lastOp.ret[j].timestamp)

QueryMostRecent ==
    \A h \in 1..Len(storage) :
        (/\ Selected(storage[h], lastOp.arg.severity, lastOp.arg.status, lastOp.arg.source)
         /\ \A k \in 1..Len(lastOp.ret) : lastOp.ret[k].id # storage[h].id)
        => \A k \in 1..Len(lastOp.ret) :
              Instant(lastOp.ret[k].timestamp) >= Instant(fromisoformat(storage[h].timestamp))

\* C25: query_alerts returns only stored alerts that match every filter given,
\* at most limit of them, ordered by timestamp from the most recent to the
\* oldest, and they are the most recent matching ones.
C25_QueryMostRecentFirst ==
    lastOp.op = "query" =>
        /\ QueryFiltered
        /\ QueryLimited
        /\ QueryNewestFirst
        /\ QueryMostRecent

\* The same with the order SQLite applies: that of the stored timestamp texts
QueryByText ==
    lastOp.op = "query" =>
        /\ QueryFiltered
        /\ QueryLimited
        /\ \A i, j \in 1..Len(lastOp.ret) :
              i < j => ~TextLess(isoformat(lastOp.ret[i].timestamp),
                                 isoformat(lastOp.ret[j].timestamp))

-----------------------------------------------------------------------------
(* SpecFrame: one aggregator whose caller ingests (also alerts that reuse a    *)
(* stored id), acknowledges and resolves, and also calls storage.update_alert  *)
(* with an Alert it has read and changed.                                      *)

FrameTimes == {0, time_window}

FIngest ==
    \E id \in (DOMAIN storage) \cup {nextId}, title \in Titles, timestamp \in FrameTimes,
       fail \in Fails :
        IngestStep(NewAlert(id, "db", "error", title, <<"t", "o">>, timestamp), fail)

\* alert = storage.get_alert(id); the caller changes the Alert, content fields
\* included; storage.update_alert(alert)
FUpdate ==
    \E alert_id \in DOMAIN storage, title \in Titles, severity \in IngestSeverities,
       status \in {"in_progress", "dismissed"}, fail \in Fails :
        LET alert == [get_alert(storage, alert_id) EXCEPT
                         !.title = title, !.severity = severity, !.source = "web",
                         !.message = <<"n", "o">>,
                         !.fingerprint = compute_fingerprint("web", severity, title,
                                                             <<"n", "o">>),
                         !.status = status]
            upd == update_alert(storage, alert, fail)
        IN /\ now < MaxOps
           /\ storage' = upd.db
           /\ nFaults' = IF fail THEN nFaults + 1 ELSE nFaults
           /\ lastOp' = OpRecord("update_alert", alert, alert_id, fail,
                                 [NoResult EXCEPT !.outcome =
                                     IF upd.ok THEN "returned" ELSE "raised"], {})
           /\ now' = now + 1
           /\ run' = NoRun
           /\ UNCHANGED <<dedup_enabled, active_alerts, stats, callbacks, rules, nextId,
                          nIngest, nMerged, pending, threads>>

NextFrame ==
    \/ FIngest
    \/ DoAcknowledge
    \/ DoResolve
    \/ FUpdate

SpecFrame == Init /\ [][NextFrame]_vars

-----------------------------------------------------------------------------
(* Properties of SpecFrame *)

\* row `after` is row `before` but for the columns update_alert sets
SameContent(before, after) ==
    [after EXCEPT !.status = before.status,
                  !.duplicate_count = before.duplicate_count,
                  !.last_seen = before.last_seen,
                  !.acknowledged_at = before.acknowledged_at,
                  !.resolved_at = before.resolved_at,
                  !.acknowledged_by = before.acknowledged_by,
                  !.metadata = before.metadata] = before

ContentKept ==
    \A id \in DOMAIN storage :
        /\ id \in DOMAIN storage'
        /\ storage'[id].source = storage[id].source
        /\ storage'[id].severity = storage[id].severity
        /\ storage'[id].title = storage[id].title
        /\ storage'[id].message = storage[id].message
        /\ storage'[id].fingerprint = storage[id].fingerprint
        /\ SameContent(storage[id], storage'[id])

UpdateWritesMutable ==
    (lastOp'.op = "update_alert" /\ lastOp'.outcome = "returned") =>
        /\ DOMAIN storage' = DOMAIN storage
        /\ storage'[lastOp'.id].status = lastOp'.alert.status
        /\ \A id \in (DOMAIN storage) \ {lastOp'.id} : storage'[id] = storage[id]

\* C23: for every stored alert id the stored source, severity, title, message
\* and fingerprint never change once the row exists, under ingests (merges into
\* the alert included), acknowledge, resolve and update_alert calls;
\* update_alert writes only status, duplicate_count, last_seen,
\* acknowledged_at, resolved_at, acknowledged_by and metadata.
C23_ContentImmutable ==
    [][ContentKept /\ UpdateWritesMutable]_vars

C23_Witness ==
    /\ lastOp.op = "update_alert"
    /\ lastOp.outcome = "returned"
    /\ storage[lastOp.id].status = "dismissed"
    /\ storage[lastOp.id].duplicate_count = 2
    /\ lastOp.alert.title # storage[lastOp.id].title
    /\ lastOp.alert.source # storage[lastOp.id].source
    /\ lastOp.alert.fingerprint # storage[lastOp.id].fingerprint

-----------------------------------------------------------------------------
(* SpecApi: AlertAPI.submit_alert on one aggregator: the request dict goes     *)
(* through AlertCollector.collect_from_dict and the Alert through ingest.      *)

\* str.lower() on the severity strings submitted
lower(s) ==
    CASE s = "ERROR" -> "error"
      [] s = "Fatal" -> "fatal"
      [] OTHER -> s

\* AlertCollector.collect: the severity is looked up in AlertSeverity; a
\* ValueError is logged as a warning and the severity set to INFO
collect(id, source, severity, title, message, timestamp) ==
    LET severity_enum == IF lower(severity) \in AlertSeverity
                         THEN lower(severity) ELSE "info"
    IN NewAlert(id, source, severity_enum, title, message, timestamp)

\* AlertCollector.collect_from_dict; a dict with no timestamp gets the clock's
collect_from_dict(id, data, clock) ==
    collect(id,
            IF "source" \in DOMAIN data THEN data.source ELSE "unknown",
            IF "severity" \in DOMAIN data THEN data.severity ELSE "info",
            IF "title" \in DOMAIN data THEN data.title ELSE <<"U">>,
            IF "message" \in DOMAIN data THEN data.message ELSE <<>>,
            IF "timestamp" \in DOMAIN data THEN data.timestamp ELSE clock)

Required == {"source", "severity", "title", "message"}

Refusal(error) ==
    [success |-> FALSE, error |-> error, alert_id |-> 0, is_duplicate |-> FALSE,
     duplicate_count |-> 0]

\* AlertAPI.submit_alert: the response, and the aggregator after the call
submit_alert(enabled, active, db, st, cbs, rs, id, data, clock, fail) ==
    IF ~(Required \subseteq DOMAIN data)
    THEN [response |-> Refusal("Missing required field"), ingested |-> FALSE,
          alert |-> NoAlert,
          r |-> Result(active, db, st, "returned", None, NoAlert, 0, <<>>)]
    ELSE LET alert == collect_from_dict(id, data, clock)
             r == Ingest(enabled, active, db, st, cbs, rs, alert, fail)
         IN [response |-> IF r.outcome = "raised" THEN Refusal("Exception")
                          ELSE [success |-> TRUE, error |-> None, alert_id |-> r.ret_id,
                                is_duplicate |-> r.ret_id # alert.id,
                                duplicate_count |-> r.ret_count],
             ingested |-> TRUE, alert |-> alert, r |-> r]

SubmittedSeverities == {"error", "ERROR", "Fatal", "verbose"}

Requests ==
    {[source |-> "db", severity |-> severity, title |-> title, message |-> <<"t", "o">>] :
        severity \in SubmittedSeverities, title \in Titles}
    \cup {[source |-> "db", title |-> title, message |-> <<"t", "o">>] : title \in Titles}

ASubmit ==
    \E data \in Requests, fail \in Fails :
        \E s \in {submit_alert(dedup_enabled, active_alerts, storage, stats, callbacks,
                               rules, nextId, data, now, fail)} :
           /\ now < MaxSubmits
           /\ Install(s.r, fail /\ s.ingested)
           /\ lastOp' = [op |-> "submit", data |-> data, alert |-> s.alert,
                         response |-> s.response, calls |-> s.r.calls]
           /\ nextId' = nextId + 1
           /\ now' = now + 1
           /\ nIngest' = IF s.response.success THEN nIngest + 1 ELSE nIngest
           /\ UNCHANGED <<dedup_enabled, callbacks, rules, nMerged, run, pending, threads>>

InitApi ==
    /\ dedup_enabled = TRUE
    /\ active_alerts = <<>>
    /\ storage = <<>>
    /\ stats = InitStats
    /\ callbacks = <<>>
    /\ rules = DefaultRules
    /\ lastOp = [op |-> "init", data |-> <<>>, alert |-> NoAlert,
                 response |-> Refusal(None), calls |-> <<>>]
    /\ nextId = 1
    /\ now = 0
    /\ nFaults = 0
    /\ nIngest = 0
    /\ nMerged = 0
    /\ run = NoRun
    /\ pending = {}
    /\ threads = <<>>

NextApi == ASubmit

SpecApi == InitApi /\ [][NextApi]_vars

-----------------------------------------------------------------------------
(* Properties of SpecApi *)

\* The request carries a severity that is none of the five, in any case
UnknownSeverity(data) ==
    /\ "severity" \in DOMAIN data
    /\ lower(data.severity) \notin AlertSeverity

DefaultedToInfo ==
    [][(/\ lastOp'.op = "submit"
        /\ UnknownSeverity(lastOp'.data)
        /\ lastOp'.response.success) =>
          /\ lastOp'.alert.severity = "info"
          /\ ~lastOp'.response.is_duplicate =>
                /\ lastOp'.response.alert_id \in DOMAIN storage'
                /\ storage'[lastOp'.response.alert_id].severity = "info"
                /\ stats'.by_severity["info"] = stats.by_severity["info"] + 1]_vars

-----------------------------------------------------------------------------
(* SpecFingerprint: Alert objects as the dataclass constructor builds them,    *)
(* two at a time.                                                              *)

NoFingerprint == <<>>

\* Fault: a fingerprint that also hashes the timestamp
AlertFingerprint_WithTimestamp(self) ==
    <<compute_fingerprint(self.source, self.severity, self.title, self.message),
      self.timestamp>>

\* Alert.compute_fingerprint(self)
AlertFingerprint(self) ==
    compute_fingerprint(self.source, self.severity, self.title, self.message)

\* Alert.__post_init__: first_seen, last_seen and fingerprint are filled in
\* when the constructor was given none
post_init(self) ==
    [self EXCEPT !.first_seen = IF @ = NoTime THEN self.timestamp ELSE @,
                 !.last_seen = IF @ = NoTime THEN self.timestamp ELSE @,
                 !.fingerprint = IF @ = NoFingerprint THEN AlertFingerprint(self) ELSE @]

\* Alert(id, source, severity, title, message, timestamp, tags=, metadata=,
\* fingerprint=)
Construct(id, content, timestamp, tags, metadata, fingerprint) ==
    post_init([id |-> id, source |-> content[1], severity |-> content[2],
               title |-> content[3], message |-> content[4], timestamp |-> timestamp,
               status |-> "new", tags |-> tags, metadata |-> metadata,
               fingerprint |-> fingerprint, duplicate_count |-> 1,
               first_seen |-> NoTime, last_seen |-> NoTime,
               acknowledged_at |-> NoTime, resolved_at |-> NoTime,
               acknowledged_by |-> None])

Contents ==
    {<<source, "error", title, <<"t", "o">>>> :
        source \in {"db", "web"}, title \in Titles}

\* What else the two constructor calls are given: timestamp, tags, metadata
Extras ==
    {<<timestamp, tags, metadata>> :
        timestamp \in {0, time_window + 1},
        tags \in {<<>>, <<"prod">>},
        metadata \in {<<>>, [k \in {"host"} |-> "h1"]}}

InitFingerprint ==
    /\ lastOp = [op |-> "init", a |-> NoAlert, b |-> NoAlert, given |-> FALSE]
    /\ now = 0
    /\ nextId = 1
    /\ dedup_enabled = TRUE
    /\ active_alerts = <<>>
    /\ storage = <<>>
    /\ stats = InitStats
    /\ callbacks = <<>>
    /\ rules = DefaultRules
    /\ nFaults = 0
    /\ nIngest = 0
    /\ nMerged = 0
    /\ run = NoRun
    /\ pending = {}
    /\ threads = <<>>

\* two alerts are built; the second may be given a fingerprint (as
\* _row_to_alert and from_dict give one)
PBuild ==
    \E c1, c2 \in Contents, x1, x2 \in Extras, given \in BOOLEAN :
        /\ now < MaxBuilds
        /\ lastOp' = [op |-> "build",
                      a |-> Construct(nextId, c1, x1[1], x1[2], x1[3], NoFingerprint),
                      b |-> Construct(nextId + 1, c2, x2[1], x2[2], x2[3],
                                      IF given
                                      THEN compute_fingerprint("db", "error",
                                                               <<"o", "l", "d">>, <<>>)
                                      ELSE NoFingerprint),
                      given |-> given]
        /\ nextId' = nextId + 2
        /\ now' = now + 1
        /\ UNCHANGED <<dedup_enabled, active_alerts, storage, stats, callbacks, rules,
                       nFaults, nIngest, nMerged, run, pending, threads>>

NextFingerprint == PBuild

SpecFingerprint == InitFingerprint /\ [][NextFingerprint]_vars

-----------------------------------------------------------------------------
(* Properties of SpecFingerprint *)

SameContentFields(a, b) ==
    /\ a.source = b.source
    /\ a.severity = b.severity
    /\ a.title = b.title
    /\ a.message = b.message

\* C27: two alerts with equal (source, severity, title, message) have equal
\* computed fingerprints, whatever their ids, timestamps, tags and metadata.
C27_FingerprintDeterminism ==
    (lastOp.op = "build" /\ ~lastOp.given /\ SameContentFields(lastOp.a, lastOp.b))
        => lastOp.a.fingerprint = lastOp.b.fingerprint

C27_Witness ==
    /\ lastOp.op = "build"
    /\ ~lastOp.given
    /\ SameContentFields(lastOp.a, lastOp.b)
    /\ lastOp.a.id # lastOp.b.id
    /\ lastOp.a.timestamp # lastOp.b.timestamp
    /\ lastOp.a.tags # lastOp.b.tags
    /\ lastOp.a.metadata # lastOp.b.metadata
    /\ lastOp.a.fingerprint = lastOp.b.fingerprint

-----------------------------------------------------------------------------
(* SpecStats: one aggregator whose caller ingests alerts of one fingerprint    *)
(* and reads the statistics with get_stats().to_dict().                        *)

\* A float, kept as the exact fraction num / den
Fraction(num, den) == [num |-> num, den |-> den]
FractionEq(x, y) == x.num * y.den = y.num * x.den

\* Fault: a to_dict whose rate is the quotient alone
to_dict_PlainRatio(st) ==
    [total_alerts |-> st.total_alerts,
     by_severity |-> st.by_severity,
     by_status |-> st.by_status,
     by_source |-> st.by_source,
     duplicates_merged |-> st.duplicates_merged,
     deduplication_rate |-> IF st.total_alerts > 0
                            THEN Fraction(st.duplicates_merged, st.total_alerts)
                            ELSE Fraction(0, 1)]

\* AlertStats.to_dict: duplicates_merged / total_alerts * 100, or 0.0
to_dict(st) ==
    [total_alerts |-> st.total_alerts,
     by_severity |-> st.by_severity,
     by_status |-> st.by_status,
     by_source |-> st.by_source,
     duplicates_merged |-> st.duplicates_merged,
     deduplication_rate |-> IF st.total_alerts > 0
                            THEN Fraction(st.duplicates_merged * 100, st.total_alerts)
                            ELSE Fraction(0, 1)]

TIngest ==
    \E title \in Titles, timestamp \in {0, time_window}, fail \in Fails :
        IngestStep(NewAlert(nextId, "db", "error", title, <<"t", "o">>, timestamp), fail)

\* AlertAggregator.get_stats().to_dict()
TGetStats ==
    /\ now < MaxOps
    /\ lastOp.op # "get_stats"
    /\ lastOp' = [op |-> "get_stats", ret |-> to_dict(stats)]
    /\ now' = now + 1
    /\ UNCHANGED <<dedup_enabled, active_alerts, storage, stats, callbacks, rules, nextId,
                   nFaults, nIngest, nMerged, run, pending, threads>>

NextStats ==
    \/ TIngest
    \/ DoResolve
    \/ TGetStats

SpecStats == Init /\ [][NextStats]_vars

-----------------------------------------------------------------------------
(* Properties of SpecStats *)

RateIs(num, den) ==
    lastOp.op = "get_stats" =>
        /\ lastOp.ret.total_alerts = stats.total_alerts
        /\ lastOp.ret.duplicates_merged = stats.duplicates_merged
        /\ IF stats.total_alerts = 0
           THEN lastOp.ret.deduplication_rate = Fraction(0, 1)
           ELSE FractionEq(lastOp.ret.deduplication_rate, Fraction(num, den))

\* C28: to_dict() reports deduplication_rate equal to duplicates_merged
\* divided by total_alerts (2 merged over 1 total gives 2), and 0 when
\* total_alerts is 0.
C28_PlainRatio ==
    RateIs(stats.duplicates_merged, stats.total_alerts)

\* C28, amended: the rate is that quotient times 100, a percentage (2 merged
\* over 1 total gives 200), and 0.0 when total_alerts is 0.
C28_Percentage ==
    RateIs(stats.duplicates_merged * 100, stats.total_alerts)

C28_Witness ==
    /\ lastOp.op = "get_stats"
    /\ stats.duplicates_merged = 2
    /\ stats.total_alerts = 1
    /\ FractionEq(lastOp.ret.deduplication_rate, Fraction(200, 1))

-----------------------------------------------------------------------------
(* scenario_validator.py: ScenarioValidator                                    *)
(* SpecScenario: validate_data called on one scenario dict. Of the dict the    *)
(* model keeps the trigger and, of each step, id and depends_on (a missing     *)
(* depends_on reads as the empty list); a missing trigger field is None.       *)

\* bool(value) is False: the field is missing (get() gives None) or empty
Falsy(value) == value = None \/ value = ""

\* The errors of Draft7Validator(SCHEMA).iter_errors(data) that the modelled
\* parts can cause: trigger.type outside its enum, fewer than one step
SchemaErrors(data) ==
    (IF data.trigger.type \notin {"manual", "command", "webhook", "schedule", "hybrid"}
     THEN <<[field |-> <<"scenario", "trigger", "type">>, message |-> "enum", names |-> None]>>
     ELSE <<>>)
    \o (IF Len(data.steps) < 1
        THEN <<[field |-> <<"scenario", "steps">>, message |-> "minItems", names |-> None]>>
        ELSE <<>>)

StepIds(steps) == {steps[i].id : i \in 1..Len(steps)}

DependencyError(i, dep_id) ==
    [field |-> <<"scenario", "steps", i - 1, "depends_on">>,
     message |-> "Dependency not found in steps", names |-> dep_id]

\* The inner loop of _validate_step_dependencies over step i's depends_on, from
\* position k on
RECURSIVE DependsLoop(_, _, _, _)
DependsLoop(step_ids, i, depends_on, k) ==
    IF k > Len(depends_on) THEN <<>>
    ELSE (IF depends_on[k] \notin step_ids
          THEN <<DependencyError(i, depends_on[k])>> ELSE <<>>)
         \o DependsLoop(step_ids, i, depends_on, k + 1)

\* The outer loop, from step i on
RECURSIVE StepsLoop(_, _, _)
StepsLoop(steps, step_ids, i) ==
    IF i > Len(steps) THEN <<>>
    ELSE DependsLoop(step_ids, i, steps[i].depends_on, 1)
         \o StepsLoop(steps, step_ids, i + 1)

\* Fault: a check that reports a step's first missing dependency only
RECURSIVE DependsLoop_FirstOnly(_, _, _, _)
DependsLoop_FirstOnly(step_ids, i, depends_on, k) ==
    IF k > Len(depends_on) THEN <<>>
    ELSE IF depends_on[k] \notin step_ids
    THEN <<DependencyError(i, depends_on[k])>>
    ELSE DependsLoop_FirstOnly(step_ids, i, depends_on, k + 1)

RECURSIVE StepsLoop_FirstOnly(_, _, _)
StepsLoop_FirstOnly(steps, step_ids, i) ==
    IF i > Len(steps) THEN <<>>
    ELSE DependsLoop_FirstOnly(step_ids, i, steps[i].depends_on, 1)
         \o StepsLoop_FirstOnly(steps, step_ids, i + 1)

validate_step_dependencies_FirstOnly(scenario) ==
    StepsLoop_FirstOnly(scenario.steps, StepIds(scenario.steps), 1)

\* ScenarioValidator._validate_step_dependencies
validate_step_dependencies(scenario) ==
    StepsLoop(scenario.steps, StepIds(scenario.steps), 1)

TriggerError(name) ==
    [field |-> <<"scenario", "trigger", name>>, message |-> "trigger requires field",
     names |-> name]

\* Fault: a trigger check that accepts an empty string
validate_trigger_config_PresentOnly(scenario) ==
    LET trigger == scenario.trigger
    IN IF trigger.type = "command" /\ trigger.command = None
       THEN <<TriggerError("command")>>
       ELSE IF trigger.type = "webhook" /\ trigger.webhook_path = None
       THEN <<TriggerError("webhook_path")>>
       ELSE IF trigger.type = "schedule" /\ trigger.schedule = None
       THEN <<TriggerError("schedule")>>
       ELSE <<>>

\* ScenarioValidator._validate_trigger_config
validate_trigger_config(scenario) ==
    LET trigger == scenario.trigger
    IN IF trigger.type = "command" /\ Falsy(trigger.command)
       THEN <<TriggerError("command")>>
       ELSE IF trigger.type = "webhook" /\ Falsy(trigger.webhook_path)
       THEN <<TriggerError("webhook_path")>>
       ELSE IF trigger.type = "schedule" /\ Falsy(trigger.schedule)
       THEN <<TriggerError("schedule")>>
       ELSE <<>>

\* ScenarioValidator.validate_data: (is_valid, errors)
validate_data(data) ==
    LET schema == SchemaErrors(data)
        errors == IF schema = <<>>
                  THEN validate_step_dependencies(data) \o validate_trigger_config(data)
                  ELSE schema
    IN [is_valid |-> Len(errors) = 0, errors |-> errors]

StepNames == {"a", "b"}
DependsOn == {<<>>, <<"b">>, <<"c", "c">>, <<"a", "c">>, <<"c", "d">>}
ScenarioSteps ==
    UNION {[1..n -> [id : StepNames, depends_on : DependsOn]] : n \in 0..MaxSteps}
Triggers ==
    [type : {"manual", "command", "webhook", "schedule", "hybrid", "cron"},
     command : {None, "", "/run"},
     webhook_path : {None, "", "/hook"},
     schedule : {None, "", "0 9 * * *"}]

InitScenario ==
    /\ lastOp = [op |-> "init", data |-> [trigger |-> [type |-> "manual"], steps |-> <<>>],
                 is_valid |-> FALSE, errors |-> <<>>]
    /\ now = 0
    /\ nextId = 1
    /\ dedup_enabled = TRUE
    /\ active_alerts = <<>>
    /\ storage = <<>>
    /\ stats = InitStats
    /\ callbacks = <<>>
    /\ rules = DefaultRules
    /\ nFaults = 0
    /\ nIngest = 0
    /\ nMerged = 0
    /\ run = NoRun
    /\ pending = {}
    /\ threads = <<>>

\* validator.validate_data(data)
VValidate ==
    \E trigger \in Triggers, steps \in ScenarioSteps :
        LET data == [trigger |-> trigger, steps |-> steps]
            r == validate_data(data)
        IN /\ lastOp.op = "init"
           /\ lastOp' = [op |-> "validate", data |-> data, is_valid |-> r.is_valid,
                         errors |-> r.errors]
           /\ now' = now + 1
           /\ UNCHANGED <<dedup_enabled, active_alerts, storage, stats, callbacks, rules,
                          nextId, nFaults, nIngest, nMerged, run, pending, threads>>

NextScenario == VValidate

SpecScenario == InitScenario /\ [][NextScenario]_vars

-----------------------------------------------------------------------------
(* Properties of SpecScenario *)

Validated == lastOp.op = "validate"
PassesSchema == Validated /\ SchemaErrors(lastOp.data) = <<>>

\* The dangling references: <<i, k>> where step i's k-th dependency names no step
Dangling ==
    UNION {{<<i, k>> : k \in {k \in 1..Len(lastOp.data.steps[i].depends_on) :
                                 lastOp.data.steps[i].depends_on[k]
                                    \notin StepIds(lastOp.data.steps)}} :
           i \in 1..Len(lastOp.data.steps)}

DependencyErrors ==
    {e \in 1..Len(lastOp.errors) :
        lastOp.errors[e].message = "Dependency not found in steps"}

\* C29: for a scenario that passes the schema check, validate_data gives
\* is_valid = false and an error naming the missing dependency whenever a
\* step's depends_on lists an id that is no step's id, one error per dangling
\* reference.
C29_DanglingDependencies ==
    PassesSchema =>
        /\ Dangling # {} => ~lastOp.is_valid
        /\ Cardinality(DependencyErrors) = Cardinality(Dangling)
        /\ \A ref \in Dangling :
              Cardinality({e \in DependencyErrors :
                              /\ lastOp.errors[e].names =
                                    lastOp.data.steps[ref[1]].depends_on[ref[2]]
                              /\ lastOp.errors[e].field[3] = ref[1] - 1})
              = Cardinality({other \in Dangling :
                                /\ other[1] = ref[1]
                                /\ lastOp.data.steps[other[1]].depends_on[other[2]] =
                                      lastOp.data.steps[ref[1]].depends_on[ref[2]]})

C29_Witness ==
    /\ PassesSchema
    /\ Len(lastOp.data.steps) = 2
    /\ lastOp.data.steps[1].depends_on = <<"c", "d">>
    /\ lastOp.data.steps[2].depends_on = <<"a", "c">>
    /\ ~lastOp.is_valid
    /\ Cardinality(DependencyErrors) = 3

\* The trigger field its type requires, None for manual and hybrid
RequiredField(trigger) ==
    CASE trigger.type = "command" -> "command"
      [] trigger.type = "webhook" -> "webhook_path"
      [] trigger.type = "schedule" -> "schedule"
      [] OTHER -> None

ValueOf(trigger, name) ==
    CASE name = "command" -> trigger.command
      [] name = "webhook_path" -> trigger.webhook_path
      [] name = "schedule" -> trigger.schedule

\* C30: for a scenario that passes the schema check and whose trigger type is
\* command, webhook or schedule, validate_data gives is_valid = false with an
\* error on scenario.trigger.<field> when that type's field is missing or
\* empty; and is_valid is true exactly when the error list is empty.
C30_TriggerFields ==
    Validated =>
        /\ lastOp.is_valid <=> lastOp.errors = <<>>
        /\ (/\ PassesSchema
            /\ RequiredField(lastOp.data.trigger) # None
            /\ Falsy(ValueOf(lastOp.data.trigger, RequiredField(lastOp.data.trigger))))
           => /\ ~lastOp.is_valid
              /\ \E e \in 1..Len(lastOp.errors) :
                    lastOp.errors[e].field =
                       <<"scenario", "trigger", RequiredField(lastOp.data.trigger)>>

C30_Witness ==
    /\ PassesSchema
    /\ lastOp.data.trigger.type = "webhook"
    /\ lastOp.data.trigger.webhook_path = ""
    /\ lastOp.data.trigger.command = "/run"
    /\ Dangling = {}
    /\ ~lastOp.is_valid
    /\ Len(lastOp.errors) = 1
    /\ lastOp.errors[1].field = <<"scenario", "trigger", "webhook_path">>

-----------------------------------------------------------------------------
(* Resolve and the active map (Spec) *)

\* The step is a resolve(id) that returned True
ResolveReturnedTrue ==
    /\ lastOp'.op = "resolve"
    /\ lastOp'.outcome = "returned"
    /\ lastOp'.ret = "True"

\* The ids of the alerts an active map tracks
TrackedIds(active) == {active[i].alert.id : i \in 1..Len(active)}

\* C31: resolve(id) takes out of the active map only the entry that tracks the
\* alert of that id: every active alert of another id is still tracked after
\* the call, also when the resolved alert is a stored alert of its fingerprint.
C31_ResolveRemovesOnlyItsOwn ==
    [][ResolveReturnedTrue =>
        (TrackedIds(active_alerts) \ {lastOp'.id}) \subseteq TrackedIds(active_alerts')]_vars

\* resolve(id) has returned True: it wrote the row's resolved_at, which no
\* other call writes anything but the resolving alert's value into
WasResolved(db, alert_id) ==
    /\ alert_id \in DOMAIN db
    /\ db[alert_id].resolved_at # NoTime

NoResolvedTracked ==
    \A i \in 1..Len(active_alerts) : ~WasResolved(storage, active_alerts[i].alert.id)

NoMergeIntoResolved ==
    (lastOp'.op = "ingest" /\ lastOp'.outcome = "returned")
        => /\ ~WasResolved(storage, lastOp'.ret_id)
           /\ ~WasResolved(storage, lastOp'.merged_into)
           /\ \A i \in DOMAIN storage :
                 WasResolved(storage, i)
                     => storage'[i].duplicate_count = storage[i].duplicate_count

\* C32: once resolve(id) has returned True, the alert of that id is never a
\* merge target again: whatever ingest, acknowledge and resolve calls follow, it
\* is not in the active map, no ingest returns it and none increments its
\* duplicate_count.
C32_ResolvedNeverMergeTarget ==
    []NoResolvedTracked /\ [][NoMergeIntoResolved]_vars

\* The key and the id of each entry of an active map, in its order
Tracking(active) ==
    [i \in 1..Len(active) |-> [key |-> active[i].key, id |-> active[i].alert.id]]

\* C33: acknowledge(id) does not change which alerts are tracked: after it
\* returns the active map has the keys it had and each key maps to an alert of
\* the id it mapped to before.
C33_AcknowledgeKeepsTracking ==
    [][(lastOp'.op = "acknowledge" /\ lastOp'.outcome = "returned")
        => Tracking(active_alerts') = Tracking(active_alerts)]_vars

\* The step is an ingest that took the new-alert branch and whose INSERT failed
StoreFailed ==
    /\ lastOp'.op = "ingest"
    /\ lastOp'.fail
    /\ lastOp'.merged_into = 0

\* C34: when store_alert fails in an ingest of a non-duplicate alert the
\* aggregator is as it was before the call: the alert is not in the active map,
\* the stats and the table are unchanged and no event was fired.
C34_FailedStoreChangesNothing ==
    [][StoreFailed =>
        /\ lastOp'.outcome = "raised"
        /\ active_alerts' = active_alerts
        /\ lastOp'.alert.id \notin TrackedIds(active_alerts')
        /\ stats' = stats
        /\ storage' = storage
        /\ lastOp'.calls = <<>>]_vars

\* What does hold of such an ingest: the exception leaves it, the stats and the
\* table are unchanged, no event was fired
FailedStoreRaises ==
    [][StoreFailed =>
        /\ lastOp'.outcome = "raised"
        /\ stats' = stats
        /\ storage' = storage
        /\ lastOp'.calls = <<>>]_vars

-----------------------------------------------------------------------------
(* SpecSync: one aggregator, ingests of alerts built by the collector (status  *)
(* new) that carry metadata, acknowledge, resolve and cleanup_old_alerts calls *)

\* AlertStorage.cleanup_old on the table keyed by id: DELETE ... WHERE status =
\* 'resolved' AND resolved_at < cutoff, the cutoff `days` before today
cleanup_old_alerts(db, days, today) ==
    LET gone == {i \in DOMAIN db :
                    /\ db[i].status = "resolved"
                    /\ db[i].resolved_at # NoTime
                    /\ db[i].resolved_at < today - days}
    IN [count |-> Cardinality(gone), db |-> [i \in (DOMAIN db) \ gone |-> db[i]]]

SyncMetadata == {<<>>, [k \in {"host"} |-> "h1"], [k \in {"host"} |-> "h2"]}

SyncTimes == {0, time_window + 1}

YIngest ==
    \E title \in Titles, metadata \in SyncMetadata, timestamp \in SyncTimes,
       fail \in Fails :
        IngestStep([NewAlert(nextId, "db", "error", title, <<"t", "o">>, timestamp)
                       EXCEPT !.metadata = metadata],
                   fail)

\* AlertAggregator.cleanup_old_alerts(days)
YCleanup ==
    \E days \in {0, 1} :
        LET c == cleanup_old_alerts(storage, days, now)
        IN /\ now < MaxOps
           /\ storage' = c.db
           /\ lastOp' = [OpRecord("cleanup_old_alerts", NoAlert, 0, FALSE, NoResult, {})
                            EXCEPT !.ret_count = c.count]
           /\ now' = now + 1
           /\ run' = NoRun
           /\ pending' = {q \in pending : q.id \in DOMAIN c.db}
           /\ UNCHANGED <<dedup_enabled, active_alerts, stats, callbacks, rules, nextId,
                          nFaults, nIngest, nMerged, threads>>

NextSync ==
    \/ YIngest
    \/ DoAcknowledge
    \/ DoResolve
    \/ YCleanup

SpecSync == Init /\ [][NextSync]_vars

-----------------------------------------------------------------------------
(* Properties of SpecSync *)

\* The row agrees with the in-memory alert on every mutable field
RowAgrees(row, alert) ==
    /\ row.id = alert.id
    /\ row.status = alert.status
    /\ row.duplicate_count = alert.duplicate_count
    /\ row.last_seen = alert.last_seen
    /\ row.acknowledged_at = alert.acknowledged_at
    /\ row.acknowledged_by = alert.acknowledged_by
    /\ row.resolved_at = alert.resolved_at
    /\ row_to_alert(row).metadata = alert.metadata

InSync ==
    \A i \in 1..Len(active_alerts) :
        /\ active_alerts[i].key = active_alerts[i].alert.fingerprint
        /\ active_alerts[i].alert.id \in DOMAIN storage
        /\ RowAgrees(storage[active_alerts[i].alert.id], active_alerts[i].alert)

\* C35: after every completed ingest, acknowledge, resolve or
\* cleanup_old_alerts call, no write to storage having failed, every alert of
\* the active map is keyed by its own fingerprint and has a row of its id that
\* agrees with it on status, duplicate_count, last_seen, acknowledged_at,
\* acknowledged_by, resolved_at and metadata.
C35_ActiveMatchesStorage ==
    nFaults = 0 => InSync

\* A duplicate carrying metadata was merged into an acknowledged alert: the
\* alert and its row are both acknowledged, with duplicate_count 2
C35_Witness ==
    /\ nFaults = 0
    /\ lastOp.op = "ingest"
    /\ lastOp.ret = "existing"
    /\ lastOp.alert.metadata # <<>>
    /\ \E i \in 1..Len(active_alerts) :
          /\ active_alerts[i].alert.id = lastOp.merged_into
          /\ active_alerts[i].alert.status = "acknowledged"
          /\ active_alerts[i].alert.duplicate_count = 2
          /\ active_alerts[i].alert.metadata # <<>>
          /\ storage[lastOp.merged_into].status = "acknowledged"

-----------------------------------------------------------------------------
(* The dedup window (Spec) *)

\* The step is an ingest, deduplication enabled, of a fingerprint that is a key
\* of the active map
IngestOfTracked ==
    /\ dedup_enabled
    /\ lastOp'.op = "ingest"
    /\ KeyIndex(active_alerts, lastOp'.alert.fingerprint) # 0

\* The alert tracked under the candidate's fingerprint before the step
TrackedFor(alert) == active_alerts[KeyIndex(active_alerts, alert.fingerprint)].alert

\* The seconds between the candidate and the creation of the tracked alert
Gap(alert) == Abs(alert.timestamp - TrackedFor(alert).timestamp)

OutsideNotMerged ==
    (IngestOfTracked /\ Gap(lastOp'.alert) > time_window)
        => /\ lastOp'.merged_into # TrackedFor(lastOp'.alert).id
           /\ lastOp'.ret_id # TrackedFor(lastOp'.alert).id
           /\ TrackedFor(lastOp'.alert).id \in DOMAIN storage
                 => storage'[TrackedFor(lastOp'.alert).id] =
                        storage[TrackedFor(lastOp'.alert).id]

AtEdgeMerged ==
    (IngestOfTracked /\ Gap(lastOp'.alert) = time_window)
        => /\ lastOp'.merged_into = TrackedFor(lastOp'.alert).id
           /\ lastOp'.outcome = "returned" =>
                 /\ lastOp'.ret = "existing"
                 /\ lastOp'.ret_id = TrackedFor(lastOp'.alert).id
                 /\ lastOp'.ret_count = TrackedFor(lastOp'.alert).duplicate_count + 1

\* Merges, acknowledge and resolve leave the creation timestamp of every
\* tracked alert and of every row as it was
AnchorKept ==
    /\ \A i \in 1..Len(active_alerts), j \in 1..Len(active_alerts') :
          active_alerts[i].alert.id = active_alerts'[j].alert.id
              => active_alerts'[j].alert.timestamp = active_alerts[i].alert.timestamp
    /\ \A i \in DOMAIN storage : storage'[i].timestamp = storage[i].timestamp

\* C36: the dedup window of an active alert is anchored at its creation
\* timestamp and merges do not move it: a candidate of its fingerprint more than
\* time_window from that timestamp is not merged into it, also when it is within
\* time_window of its last_seen, and a candidate exactly time_window away is
\* merged into it.
C36_WindowAnchoredAtCreation ==
    [][OutsideNotMerged /\ AtEdgeMerged /\ AnchorKept]_vars

\* An alert created at 0 that absorbed a duplicate at time_window, and a
\* candidate of its fingerprint at time_window + 1, within the window of its
\* last_seen, that was stored as a new alert
C36_Witness ==
    /\ lastOp.op = "ingest"
    /\ lastOp.outcome = "returned"
    /\ lastOp.ret = "candidate"
    /\ lastOp.alert.timestamp = time_window + 1
    /\ \E i \in DOMAIN storage :
          /\ storage[i].fingerprint = lastOp.alert.fingerprint
          /\ storage[i].timestamp = 0
          /\ storage[i].last_seen = time_window
          /\ storage[i].duplicate_count = 2
          /\ storage[i].status = "new"

-----------------------------------------------------------------------------
(* SpecCount: one aggregator, ingests of alerts of two sources, two severities *)
(* and built with status new or acknowledged, and acknowledge / resolve calls  *)

CountSources == {"db", "web"}

CountStatuses == {"new", "acknowledged"}

CIngest ==
    \E source \in CountSources, severity \in IngestSeverities,
       status \in CountStatuses, fail \in Fails :
        IngestStep([NewAlert(nextId, source, severity, <<"d", "i", "s", "k", "1">>,
                             <<"t", "o">>, 0)
                       EXCEPT !.status = status],
                   fail)

NextCount ==
    \/ CIngest
    \/ DoAcknowledge
    \/ DoResolve

SpecCount == Init /\ [][NextCount]_vars

-----------------------------------------------------------------------------
(* Properties of SpecCount *)

\* sum(counters.values())
RECURSIVE SumOver(_, _)
SumOver(counters, keys) ==
    IF keys = {} THEN 0
    ELSE LET k == CHOOSE k \in keys : TRUE
         IN counters[k] + SumOver(counters, keys \ {k})

Total(counters) == SumOver(counters, DOMAIN counters)

CountersSumToTotal ==
    /\ Total(stats.by_severity) = stats.total_alerts
    /\ Total(stats.by_status) = stats.total_alerts
    /\ Total(stats.by_source) = stats.total_alerts

LifecycleKeepsStats ==
    lastOp'.op \in {"acknowledge", "resolve"} => stats' = stats

\* C37: after any ingest, acknowledge and resolve calls the by_severity
\* counters, the by_status counters and the by_source counters each sum to
\* stats.total_alerts, and acknowledge and resolve change no counter.
C37_CountersSumToTotal ==
    []CountersSumToTotal /\ [][LifecycleKeepsStats]_vars

\* Two alerts of one source and one of another counted, one duplicate merged,
\* one alert ingested as acknowledged, and a resolve that returned True
C37_Witness ==
    /\ lastOp.op = "resolve"
    /\ lastOp.ret = "True"
    /\ stats.total_alerts = 2
    /\ stats.duplicates_merged = 1
    /\ stats.by_source = [s \in CountSources |-> 1]
    /\ stats.by_status["acknowledged"] = 1
    /\ stats.by_status["new"] = 1

-----------------------------------------------------------------------------
(* Equally similar alerts (SpecFuzzy) *)

\* The eligible active alerts of maximal similarity to candidate a, that
\* similarity being at least the threshold
BestMatches(a) ==
    {i \in Eligible(a) :
        /\ AtThreshold(a, i)
        /\ \A j \in Eligible(a) : FracGE(Score(a, i), Score(a, j))}

\* C38: when several eligible active alerts share the maximal similarity (at
\* least the threshold) to the candidate, the fuzzy path of find_duplicate
\* returns the one that comes first in the iteration order of the active map.
C38_FirstOfEquallySimilar ==
    (lastOp.op = "find" /\ dedup_enabled /\ ~ExactMatch(lastOp.alert)
        /\ BestMatches(lastOp.alert) # {})
    => /\ lastOp.found \in BestMatches(lastOp.alert)
       /\ \A j \in BestMatches(lastOp.alert) : lastOp.found <= j

\* Two active alerts of different titles equally similar to the candidate: the
\* first one is returned
C38_Witness ==
    /\ lastOp.op = "find"
    /\ ~ExactMatch(lastOp.alert)
    /\ lastOp.found = 1
    /\ BestMatches(lastOp.alert) = {1, 2}
    /\ active_alerts[1].alert.title # active_alerts[2].alert.title
    /\ Score(lastOp.alert, 1) = Score(lastOp.alert, 2)

-----------------------------------------------------------------------------
(* SpecCache: one OfflineCache (src/lib/docs-assistant/cache.py), its set and  *)
(* get called one at a time. storage holds self.cache, the insertion-ordered   *)
(* dict, as the sequence of its entries; a value is kept as the whole number   *)
(* of megabytes its entry adds to json.dumps(self.cache), so that the rounding *)
(* of size_mb to two decimals changes nothing; now is time.time(), one second  *)
(* later at every call.                                                        *)

\* OfflineCache._is_expired
is_expired(entry, clock) == clock > entry.expires_at

\* get_stats()['size_mb']: the size of json.dumps(self.cache), in MB
RECURSIVE size_mb(_)
size_mb(cache) ==
    IF cache = <<>> THEN 0 ELSE Head(cache).size + size_mb(Tail(cache))

\* self.cache[key] = entry: an existing key keeps its place in the dict
CachePut(cache, entry) ==
    IF \E i \in 1..Len(cache) : cache[i].key = entry.key
    THEN [i \in 1..Len(cache) |-> IF cache[i].key = entry.key THEN entry ELSE cache[i]]
    ELSE Append(cache, entry)

\* The place of entry i in sorted(self.cache.items(), key=accessed_at), from 0:
\* the sort is stable
LruRank(cache, i) ==
    Cardinality({j \in 1..Len(cache) :
                    \/ cache[j].accessed_at < cache[i].accessed_at
                    \/ cache[j].accessed_at = cache[i].accessed_at /\ j < i})

\* The entries at the places kept, in their order
RECURSIVE Kept(_, _, _)
Kept(cache, keep, i) ==
    IF i > Len(cache) THEN <<>>
    ELSE IF i \in keep THEN <<cache[i]>> \o Kept(cache, keep, i + 1)
    ELSE Kept(cache, keep, i + 1)

\* OfflineCache._check_size: the expired entries go; then, if the size is over
\* max_size_mb, the least recently accessed quarter of the entries goes, once
check_size(cache, clock) ==
    LET live == SelectSeq(cache, LAMBDA e : ~is_expired(e, clock))
        to_remove == Len(live) \div 4
    IN IF size_mb(live) > max_size_mb
       THEN Kept(live, {i \in 1..Len(live) : LruRank(live, i) >= to_remove}, 1)
       ELSE live

\* OfflineCache.set(key, value, ttl_seconds): self.cache after the call
cache_set(cache, key, size, ttl_seconds, clock) ==
    check_size(CachePut(cache, [key |-> key, size |-> size, created_at |-> clock,
                                accessed_at |-> clock,
                                expires_at |-> clock + ttl_seconds]),
               clock)

\* OfflineCache.get(key): whether a value is returned, and self.cache after it
cache_get(cache, key, clock) ==
    IF ~\E i \in 1..Len(cache) : cache[i].key = key
    THEN [hit |-> FALSE, cache |-> cache]
    ELSE LET i == CHOOSE i \in 1..Len(cache) : cache[i].key = key
         IN IF is_expired(cache[i], clock)
            THEN [hit |-> FALSE, cache |-> SelectSeq(cache, LAMBDA e : e.key # key)]
            ELSE [hit |-> TRUE, cache |-> [cache EXCEPT ![i].accessed_at = clock]]

CacheKeys == {"a", "b", "c", "d"}

CacheSizes == {1, 2}

CacheTtls == {1, 4}

CacheOp(op, key, size, hit) == [op |-> op, key |-> key, size |-> size, hit |-> hit]

\* OfflineCache(cache_path, max_size_mb) with no cache file yet
InitCache ==
    /\ storage = <<>>
    /\ lastOp = CacheOp("init", "", 0, FALSE)
    /\ now = 0
    /\ nextId = 1
    /\ dedup_enabled = TRUE
    /\ active_alerts = <<>>
    /\ stats = InitStats
    /\ callbacks = <<>>
    /\ rules = DefaultRules
    /\ nFaults = 0
    /\ nIngest = 0
    /\ nMerged = 0
    /\ run = NoRun
    /\ pending = {}
    /\ threads = <<>>

KSet ==
    \E key \in CacheKeys, size \in CacheSizes, ttl_seconds \in CacheTtls :
        /\ now < MaxCacheOps
        /\ storage' = cache_set(storage, key, size, ttl_seconds, now)
        /\ lastOp' = CacheOp("set", key, size, FALSE)
        /\ now' = now + 1
        /\ UNCHANGED <<dedup_enabled, active_alerts, stats, callbacks, rules, nextId,
                       nFaults, nIngest, nMerged, run, pending, threads>>

KGet ==
    \E key \in CacheKeys :
        /\ now < MaxCacheOps
        /\ storage' = cache_get(storage, key, now).cache
        /\ lastOp' = CacheOp("get", key, 0, cache_get(storage, key, now).hit)
        /\ now' = now + 1
        /\ UNCHANGED <<dedup_enabled, active_alerts, stats, callbacks, rules, nextId,
                       nFaults, nIngest, nMerged, run, pending, threads>>

NextCache ==
    \/ KSet
    \/ KGet

SpecCache == InitCache /\ [][NextCache]_vars

-----------------------------------------------------------------------------
(* Properties of SpecCache *)

WithinLimit == size_mb(storage) <= max_size_mb

EntryPresent ==
    \E i \in 1..Len(storage) :
        /\ storage[i].key = lastOp.key
        /\ storage[i].size = lastOp.size

\* C39: after any set(key, value) call has returned, the serialized size of the
\* cache is at most max_size_mb and the entry just set is in the cache.
C39_SetKeepsSizeLimit ==
    lastOp.op = "set" => (WithinLimit /\ EntryPresent)

\* What does hold after a set with a positive ttl: the entry just set is in the
\* cache and no entry of the cache is expired
SetKeepsEntry ==
    lastOp.op = "set" =>
        /\ EntryPresent
        /\ \A i \in 1..Len(storage) : ~is_expired(storage[i], now - 1)

-----------------------------------------------------------------------------
(* SpecTracker: one WorkflowTracker (src/lib/workflow-tracker/tracker.py) with *)
(* two callbacks registered, its step operations called one at a time.         *)
(* storage holds self.steps, the insertion-ordered dict, as the sequence of    *)
(* its steps; run holds self.milestones; pending is the history of milestones  *)
(* handed to callbacks; progress is kept in percent.                           *)

\* WorkflowStep(id, title, parent_id): state PENDING, progress 0.0
WorkflowStep(step_id, parent_id) ==
    [id |-> step_id, state |-> "pending", progress |-> 0, parent_id |-> parent_id]

\* self.steps[step_id] = step: an existing key keeps its place in the dict
StepPut(steps, step) ==
    IF \E i \in 1..Len(steps) : steps[i].id = step.id
    THEN [i \in 1..Len(steps) |-> IF steps[i].id = step.id THEN step ELSE steps[i]]
    ELSE Append(steps, step)

\* WorkflowTracker.get_step: the place of the step in the dict, 0 for None
get_step(steps, step_id) ==
    IF \E i \in 1..Len(steps) : steps[i].id = step_id
    THEN CHOOSE i \in 1..Len(steps) : steps[i].id = step_id
    ELSE 0

\* WorkflowStep.update_progress: max(0.0, min(1.0, progress))
update_progress(step, progress) ==
    [step EXCEPT !.progress = Max(0, Min(100, progress))]

RECURSIVE TotalProgress(_)
TotalProgress(steps) ==
    IF steps = <<>> THEN 0 ELSE Head(steps).progress + TotalProgress(Tail(steps))

\* WorkflowTracker.get_overall_progress: the mean progress of the top-level
\* steps, as the fraction <<sum of percents, number of steps>>; 0.0 when none
get_overall_progress(steps) ==
    LET top_level_steps == SelectSeq(steps, LAMBDA s : s.parent_id = None)
    IN IF top_level_steps = <<>> THEN <<0, 1>>
       ELSE <<TotalProgress(top_level_steps), Len(top_level_steps)>>

\* WorkflowTracker._has_milestone
has_milestone(milestones, milestone_type) ==
    \E i \in 1..Len(milestones) : milestones[i].type = milestone_type

\* WorkflowTracker._emit_milestone: the milestone is appended and handed to
\* every callback; an exception of a callback is caught in _trigger_callbacks
emit_milestone(t, cbs, milestone_type, step_id) ==
    [milestones |-> Append(t.milestones, [type |-> milestone_type, step_id |-> step_id]),
     delivered |-> t.delivered \o [i \in 1..Len(cbs) |-> [cb |-> i, type |-> milestone_type]]]

\* Fault: a _check_milestones that does not look at the milestones emitted
check_milestones_NoGuard(t, cbs, steps) ==
    LET progress == get_overall_progress(steps)
        t1 == IF FracGE(progress, <<45, 1>>) /\ FracGT(<<55, 1>>, progress)
              THEN emit_milestone(t, cbs, "halfway", None)
              ELSE t
    IN IF FracGE(progress, <<85, 1>>) /\ FracGT(<<95, 1>>, progress)
       THEN emit_milestone(t1, cbs, "almost_done", None)
       ELSE t1

\* WorkflowTracker._check_milestones
check_milestones(t, cbs, steps) ==
    LET progress == get_overall_progress(steps)
        t1 == IF /\ FracGE(progress, <<45, 1>>) /\ FracGT(<<55, 1>>, progress)
                 /\ ~has_milestone(t.milestones, "halfway")
              THEN emit_milestone(t, cbs, "halfway", None)
              ELSE t
    IN IF /\ FracGE(progress, <<85, 1>>) /\ FracGT(<<95, 1>>, progress)
          /\ ~has_milestone(t1.milestones, "almost_done")
       THEN emit_milestone(t1, cbs, "almost_done", None)
       ELSE t1

\* WorkflowTracker.complete_step on a step that exists: step.complete(), the
\* STEP_COMPLETE milestone, then _check_milestones
complete_step(t, cbs, steps, i) ==
    LET steps1 == [steps EXCEPT ![i].state = "completed", ![i].progress = 100]
    IN [steps |-> steps1,
        t |-> check_milestones(emit_milestone(t, cbs, "step_complete", steps[i].id),
                               cbs, steps1)]

\* WorkflowTracker.fail_step on a step that exists: step.fail(error), the FAILED
\* milestone
fail_step(t, cbs, steps, i) ==
    [steps |-> [steps EXCEPT ![i].state = "failed"],
     t |-> emit_milestone(t, cbs, "failed", steps[i].id)]

StepIdents == {"s1", "s2"}

Parents == {None, "s1"}

Progresses == {-10, 0, 80, 120}

TrackerOp(op, step_id, outcome) == [op |-> op, step_id |-> step_id, outcome |-> outcome]

\* WorkflowTracker() followed by two add_callback calls, of a callback that
\* returns and one that raises
InitTracker ==
    /\ storage = <<>>
    /\ run = <<>>
    /\ pending = <<>>
    /\ callbacks = <<"ok", "raise">>
    /\ lastOp = TrackerOp("init", None, "returned")
    /\ now = 0
    /\ nextId = 1
    /\ dedup_enabled = TRUE
    /\ active_alerts = <<>>
    /\ stats = InitStats
    /\ rules = DefaultRules
    /\ nFaults = 0
    /\ nIngest = 0
    /\ nMerged = 0
    /\ threads = <<>>

\* What every call on the tracker leaves alone
TrackerFrame ==
    /\ now' = now + 1
    /\ UNCHANGED <<dedup_enabled, active_alerts, stats, callbacks, rules, nextId,
                   nFaults, nIngest, nMerged, threads>>

\* A call with a step_id that get_step does not find: ValueError
WStepNotFound(op, step_id) ==
    /\ get_step(storage, step_id) = 0
    /\ lastOp' = TrackerOp(op, step_id, "raised")
    /\ UNCHANGED <<storage, run, pending>>

WAddStep ==
    \E step_id \in StepIdents, parent_id \in Parents :
        /\ now < MaxTrackerOps
        /\ storage' = StepPut(storage, WorkflowStep(step_id, parent_id))
        /\ lastOp' = TrackerOp("add_step", step_id, "returned")
        /\ UNCHANGED <<run, pending>>
        /\ TrackerFrame

WStartStep ==
    \E step_id \in StepIdents :
        /\ now < MaxTrackerOps
        /\ \/ WStepNotFound("start_step", step_id)
           \/ /\ get_step(storage, step_id) # 0
              /\ storage' = [storage EXCEPT ![get_step(storage, step_id)].state = "in-progress",
                                            ![get_step(storage, step_id)].progress = 0]
              /\ lastOp' = TrackerOp("start_step", step_id, "returned")
              /\ UNCHANGED <<run, pending>>
        /\ TrackerFrame

WUpdateStepProgress ==
    \E step_id \in StepIdents, progress \in Progresses :
        /\ now < MaxTrackerOps
        /\ \/ WStepNotFound("update_step_progress", step_id)
           \/ /\ get_step(storage, step_id) # 0
              /\ storage' = [storage EXCEPT ![get_step(storage, step_id)] =
                                update_progress(@, progress)]
              /\ lastOp' = TrackerOp("update_step_progress", step_id, "returned")
              /\ UNCHANGED <<run, pending>>
        /\ TrackerFrame

WCompleteStep ==
    \E step_id \in StepIdents :
        /\ now < MaxTrackerOps
        /\ \/ WStepNotFound("complete_step", step_id)
           \/ /\ get_step(storage, step_id) # 0
              /\ \E r \in {complete_step([milestones |-> run, delivered |-> pending],
                                      callbacks, storage, get_step(storage, step_id))} :
                    /\ storage' = r.steps
                    /\ run' = r.t.milestones
                    /\ pending' = r.t.delivered
                    /\ lastOp' = TrackerOp("complete_step", step_id, "returned")
        /\ TrackerFrame

WFailStep ==
    \E step_id \in StepIdents :
        /\ now < MaxTrackerOps
        /\ \/ WStepNotFound("fail_step", step_id)
           \/ /\ get_step(storage, step_id) # 0
              /\ \E r \in {fail_step([milestones |-> run, delivered |-> pending],
                                  callbacks, storage, get_step(storage, step_id))} :
                    /\ storage' = r.steps
                    /\ run' = r.t.milestones
                    /\ pending' = r.t.delivered
                    /\ lastOp' = TrackerOp("fail_step", step_id, "returned")
        /\ TrackerFrame

NextTracker ==
    \/ WAddStep
    \/ WStartStep
    \/ WUpdateStepProgress
    \/ WCompleteStep
    \/ WFailStep

SpecTracker == InitTracker /\ [][NextTracker]_vars

-----------------------------------------------------------------------------
(* Properties of SpecTracker *)

\* How many times a milestone type is in the milestone list
Emitted(milestone_type) ==
    Cardinality({i \in 1..Len(run) : run[i].type = milestone_type})

\* How many times a callback was handed a milestone of that type
Delivered(cb, milestone_type) ==
    Cardinality({i \in 1..Len(pending) :
                    pending[i].cb = cb /\ pending[i].type = milestone_type})

\* C40: in any sequence of add_step, start_step, update_step_progress,
\* complete_step and fail_step calls on one tracker, the HALFWAY milestone and
\* the ALMOST_DONE milestone are each appended to the milestone list, and handed
\* to each callback, at most once.
C40_ProgressMilestonesOnce ==
    \A milestone_type \in {"halfway", "almost_done"} :
        /\ Emitted(milestone_type) <= 1
        /\ \A cb \in 1..Len(callbacks) : Delivered(cb, milestone_type) <= 1

\* Both milestones were emitted earlier, and a complete_step has just returned
\* with the overall progress in the halfway band again: its last milestone is
\* the STEP_COMPLETE one
C40_Witness ==
    /\ lastOp.op = "complete_step"
    /\ lastOp.outcome = "returned"
    /\ FracGE(get_overall_progress(storage), <<45, 1>>)
    /\ FracGT(<<55, 1>>, get_overall_progress(storage))
    /\ Emitted("halfway") = 1
    /\ Emitted("almost_done") = 1
    /\ run[Len(run)].type = "step_complete"
    /\ Delivered(2, "halfway") = 1

=============================================================================
